---- MODULE Spec2Model ----
(***************************************************************************)
(* Model of the neural-channel layer of src/port/cognitive.c.             *)
(*                                                                         *)
(* One NeuralChannel `nc` is shared by the caller threads in `callers`.    *)
(* Every function of the channel API is modelled statement by statement:  *)
(* each thread has a program counter and the locals of the C function it  *)
(* runs, and one step is one access to the shared channel.  The fields     *)
(* current_load and bandwidth_capacity are read and written outside       *)
(* queue_lock by send_neural_message and adapt_neural_channel_capacity,   *)
(* so those accesses interleave freely; the list message_queue is only    *)
(* touched between lock() and unlock().                                    *)
(*                                                                         *)
(* ulong values are kept as integers v standing for v mod 2^32: a load     *)
(* that wrapped below zero is a negative integer (-1 is 0xFFFFFFFF).       *)
(*                                                                         *)
(* The namespace and swarm layers of the same file follow further down:    *)
(* CognitiveNamespace and CognitiveSwarm objects live in `namespaces` and  *)
(* `swarms`, the channels they point to in `channels`, and each of their   *)
(* functions is one action of a sequential caller.  The patterns that     *)
(* detect_emergent_pattern returns live in `patterns`; the global          *)
(* cognitive_state is the variable of that name.                           *)
(*                                                                         *)
(* Towards the end adapt_cognitive_namespace, add_agent_to_swarm and       *)
(* cognitive_cities_init are modelled step by step as well, with the       *)
(* threads' pc, op and loc as for the channel functions and their locks in *)
(* `locks`, so that calls of two threads interleave.                       *)
(***************************************************************************)
EXTENDS Integers, Sequences, FiniteSets, TLC

(***************************************************************************)
(* Bounds of the model.                                                    *)
(***************************************************************************)
MaxSends == 4
ConcSends == 2
MaxTime == 2
ScenarioSends == 11

(***************************************************************************)
(* Program constants.                                                      *)
(***************************************************************************)
\* adaptation_rate = 0.1 stored in a float: 13421773 / 2^27
AdaptRateNum == 13421773
AdaptRateDen == 134217728
\* the double 0.8 lies between the floats 13421772 / 2^24 and 13421773 / 2^24
HighLoadUlps == 13421773
\* the value queue_neural_message returns: return 0;
OrdinarySuccess == 0

T1 == "t1"
T2 == "t2"
Threads == {T1, T2}
\* arguments of create_neural_channel
CreateArgs == {<<"transportation", "energy", 0>>,
               <<"transportation", "energy", 1>>,
               <<"transportation", "energy", 3>>,
               <<"transportation", "energy", 5>>,
               <<"", "energy", 3>>,
               <<"transportation", "", 3>>}
ConcBandwidths == {0, 1, 2}
\* cognitive_priority of the messages sent
Priorities == {1, 2}

NoChannel == [created |-> FALSE]
NoMessage == [tag |-> 0, cognitive_priority |-> 0, timestamp |-> 0]
\* arg is the message as the caller passed it
NoLocals == [msg |-> NoMessage, arg |-> NoMessage, load_ratio_high |-> FALSE,
             new_capacity |-> 0, load |-> 0, path |-> "none"]
NoCall == [name |-> "none", ref |-> 0, ch |-> 0]
Agents == {"p1", "p2"}

VARIABLES
    nc,          \* the NeuralChannel, or NoChannel before create_neural_channel
    queue_lock,  \* nc->queue_lock: "free" or the thread holding it
    now,         \* the value time(NULL) returns
    next_tag,    \* number of messages handed to send_neural_message so far
    callers,     \* the threads that call into the channel
    pc,          \* per thread: position in the function it runs
    op,          \* per thread: the API function it was called for
    loc,         \* per thread: arguments and locals
    rc,          \* per thread: the int the function returns (receive
                 \* returns loc.msg, NoMessage standing for nil)
    pre,         \* per thread: the channel as it was when the call was made
    sendLog,     \* messages whose send returned, with the returned status
    recvLog,     \* messages returned by receive_neural_message, in order
    namespaces,  \* the CognitiveNamespace objects, in order of allocation
    channels,    \* the NeuralChannel objects the namespaces and swarms use
    swarms,      \* the CognitiveSwarm objects, in order of allocation
    aux,         \* per agent process: Proc.aux, the swarm it was added to last
    call,        \* the last namespace or swarm call that returned
    patterns,    \* the EmergentPattern objects, in order of allocation
    locks,       \* per Lock other than nc->queue_lock: "free" or the thread
                 \* holding it
    cognitive_state  \* the arrays and counts of the global cognitive_state

cityVars == <<namespaces, channels, swarms, aux, call, patterns, locks,
              cognitive_state>>

threadVars == <<nc, queue_lock, next_tag, callers, pc, op, loc, rc, pre,
                sendLog, recvLog>>

vars == <<nc, queue_lock, now, next_tag, callers, pc, op, loc, rc, pre,
          sendLog, recvLog, namespaces, channels, swarms, aux, call,
          patterns, locks, cognitive_state>>

(***************************************************************************)
(* Arithmetic of the C code.                                               *)
(***************************************************************************)
\* unsigned a >= b on ulong values kept modulo 2^32
ULongGe(a, b) ==
    IF (a >= 0) = (b >= 0) THEN a >= b ELSE a < 0

\* floor(n * 2^24 / d) and the remainder, for 0 <= n < d, without overflow
Scaled(n, d) ==
    LET a == n * 4096
        b == (a % d) * 4096
    IN  [quot |-> (a \div d) * 4096 + (b \div d), rem |-> b % d]

\* (float)n / d for d/2 <= n < d, in units of 2^-24, rounded to nearest even
FloatQuotientUlps(n, d) ==
    LET s == Scaled(n, d)
    IN  IF 2 * s.rem > d THEN s.quot + 1
        ELSE IF 2 * s.rem = d THEN s.quot + (s.quot % 2)
        ELSE s.quot

\* load_ratio = (float)current_load / bandwidth_capacity;  load_ratio > 0.8
LoadRatioHigh(load, capacity) ==
    IF capacity = 0 THEN load # 0          \* 0/0 is NaN, x/0 is +Inf
    ELSE IF load < 0 THEN TRUE             \* a wrapped load is about 2^32
    ELSE IF load >= capacity THEN TRUE     \* ratio >= 1
    ELSE IF 2 * load < capacity THEN FALSE \* ratio < 0.5
    ELSE FloatQuotientUlps(load, capacity) >= HighLoadUlps

\* (ulong)(bandwidth_capacity * (1.0 + adaptation_rate))
NewCapacity(capacity, rate) ==
    LET hi == rate \div 4096
        lo == rate % 4096
    IN  capacity + ((capacity * hi + ((capacity * lo) \div 4096))
                      \div (AdaptRateDen \div 4096))

(***************************************************************************)
(* The queue of create/receive/queue_neural_message.                       *)
(***************************************************************************)
\* a queue_neural_message that links msg in front of the list
EnqueueAtHead(queue, m) == <<m>> \o queue

\* a queue_neural_message that sets the list head without walking to the tail
EnqueueOverwrite(queue, m) == <<m>>

\* the while loop of queue_neural_message: link msg after the last message
Enqueue(queue, m) == Append(queue, m)

\* msg = nc->message_queue
QueueHead(queue) == IF queue = <<>> THEN NoMessage ELSE Head(queue)

\* nc->message_queue = msg->next
QueueRest(queue) == Tail(queue)

\* the fields create_neural_channel sets
NewChannel(source_domain, target_domain, bandwidth, t) ==
    [created |-> TRUE,
     channel_id |-> <<source_domain, target_domain, t>>,
     source_domain |-> source_domain,
     target_domain |-> target_domain,
     bandwidth_capacity |-> bandwidth,
     current_load |-> 0,
     adaptation_rate |-> AdaptRateNum,
     last_evolution |-> t,
     message_queue |-> <<>>]

(***************************************************************************)
(* Initial states.                                                         *)
(***************************************************************************)
InitCommon ==
    /\ queue_lock = "free"
    /\ now = 1
    /\ next_tag = 0
    /\ pc = [t \in Threads |-> "idle"]
    /\ op = [t \in Threads |-> "none"]
    /\ loc = [t \in Threads |-> NoLocals]
    /\ rc = [t \in Threads |-> 0]
    /\ pre = [t \in Threads |-> NoChannel]
    /\ sendLog = <<>>
    /\ recvLog = <<>>

\* the calls of cognitive_cities_init that are made after start-up
MaxInits == 1

\* the locks of the namespace and swarm layers that threads take: the global
\* cognitive_state, the adaptation_lock of the four start-up namespaces and
\* of the four namespaces each later cognitive_cities_init creates, the
\* queue_lock of the channels (four start-up channels, a coordination
\* channel, four more for each later cognitive_cities_init) and the
\* swarm_lock of the first swarm, by the index of the object
LockIds ==
    {<<"cognitive_state", 0>>}
        \cup {<<"adaptation_lock", n>> : n \in 1..(4 + 4 * MaxInits)}
        \cup {<<"queue_lock", c>> : c \in 1..(5 + 4 * MaxInits)}
        \cup {<<"swarm_lock", 1>>}

\* cognitive_state as its initializer and cognitive_cities_init leave it:
\* no array, every count 0
ZeroedState ==
    [namespaces |-> <<>>, namespace_count |-> 0,
     channels |-> <<>>, channel_count |-> 0,
     swarms |-> <<>>, swarm_count |-> 0,
     patterns |-> <<>>, pattern_count |-> 0]

InitNoCity ==
    /\ namespaces = <<>>
    /\ channels = <<>>
    /\ swarms = <<>>
    /\ aux = [a \in Agents |-> 0]
    /\ call = NoCall
    /\ patterns = <<>>
    /\ locks = [l \in LockIds |-> "free"]
    /\ cognitive_state = ZeroedState

\* concurrent callers of a channel just created
Init ==
    /\ InitCommon
    /\ InitNoCity
    /\ \E bandwidth \in ConcBandwidths :
          nc = NewChannel("transportation", "energy", bandwidth, 1)
    /\ callers = Threads

\* one caller
InitSeq ==
    /\ InitCommon
    /\ InitNoCity
    /\ nc = NoChannel
    /\ callers = {T1}

\* scenario A: one caller, a fresh channel of capacity 10
InitScenarioA ==
    /\ InitCommon
    /\ InitNoCity
    /\ nc = NewChannel("transportation", "energy", 10, 1)
    /\ callers = {T1}

(***************************************************************************)
(* Helpers of the step actions.                                            *)
(***************************************************************************)
Goto(t, label) == pc' = [pc EXCEPT ![t] = label]

Return(t, value) ==
    /\ pc' = [pc EXCEPT ![t] = "ret"]
    /\ rc' = [rc EXCEPT ![t] = value]

Enter(t, name, label, m) ==
    /\ pc[t] = "idle"
    /\ t \in callers
    /\ op' = [op EXCEPT ![t] = name]
    /\ loc' = [loc EXCEPT ![t] = [NoLocals EXCEPT !.msg = m, !.arg = m]]
    /\ pre' = [pre EXCEPT ![t] = nc]
    /\ rc' = [rc EXCEPT ![t] = 0]
    /\ IF nc.created
       THEN pc' = [pc EXCEPT ![t] = label]
       ELSE pc' = [pc EXCEPT ![t] = "nil"]

(***************************************************************************)
(* create_neural_channel                                                   *)
(***************************************************************************)
CreateChannel ==
    /\ ~nc.created
    /\ \E a \in CreateArgs : nc' = NewChannel(a[1], a[2], a[3], now)
    /\ UNCHANGED cityVars
    /\ UNCHANGED <<queue_lock, now, next_tag, callers, pc, op, loc, rc, pre,
                   sendLog, recvLog>>

\* time passes
Tick ==
    /\ now < MaxTime
    /\ now' = now + 1
    /\ UNCHANGED cityVars
    /\ UNCHANGED <<nc, queue_lock, next_tag, callers, pc, op, loc, rc, pre,
                   sendLog, recvLog>>

\* if (nc == nil) return -1;   (receive_neural_message: return nil)
NilChannel(t) ==
    /\ pc[t] = "nil"
    /\ IF op[t] = "receive" THEN Return(t, 0) ELSE Return(t, -1)
    /\ UNCHANGED cityVars
    /\ UNCHANGED <<nc, queue_lock, now, next_tag, callers, op, loc, pre,
                   sendLog, recvLog>>

(***************************************************************************)
(* adapt_neural_channel_capacity, called directly or by send               *)
(***************************************************************************)
AdaptCall(t) ==
    /\ Enter(t, "adapt", "adapt_load", NoMessage)
    /\ UNCHANGED cityVars
    /\ UNCHANGED <<nc, queue_lock, now, next_tag, callers, sendLog, recvLog>>

\* load_ratio = (float)nc->current_load ...
AdaptReadLoad(t) ==
    /\ pc[t] = "adapt_load"
    /\ loc' = [loc EXCEPT ![t].load = nc.current_load]
    /\ Goto(t, "adapt_ratio")
    /\ UNCHANGED cityVars
    /\ UNCHANGED <<nc, queue_lock, now, next_tag, callers, op, rc, pre,
                   sendLog, recvLog>>

\* ... / nc->bandwidth_capacity;  if (load_ratio > 0.8) ... else return -1;
\* in send_neural_message a negative result goes on to queue_neural_message
AdaptRatio(t) ==
    /\ pc[t] = "adapt_ratio"
    /\ LET high == LoadRatioHigh(loc[t].load, nc.bandwidth_capacity) IN
       /\ loc' = [loc EXCEPT ![t].load_ratio_high = high,
                             ![t].path = IF high \/ op[t] # "send"
                                         THEN @ ELSE "overcap"]
       /\ IF high THEN Goto(t, "adapt_compute") /\ rc' = rc
          ELSE IF op[t] = "send" THEN Goto(t, "queue_lock") /\ rc' = rc
          ELSE Return(t, -1)
    /\ UNCHANGED cityVars
    /\ UNCHANGED <<nc, queue_lock, now, next_tag, callers, op, pre,
                   sendLog, recvLog>>

\* new_capacity = nc->bandwidth_capacity * (1.0 + nc->adaptation_rate);
AdaptCompute(t) ==
    /\ pc[t] = "adapt_compute"
    /\ loc' = [loc EXCEPT ![t].new_capacity =
                  NewCapacity(nc.bandwidth_capacity, nc.adaptation_rate)]
    /\ Goto(t, "adapt_store")
    /\ UNCHANGED cityVars
    /\ UNCHANGED <<nc, queue_lock, now, next_tag, callers, op, rc, pre,
                   sendLog, recvLog>>

\* nc->bandwidth_capacity = new_capacity; nc->last_evolution = time(NULL);
\* return 0;
AdaptStore(t) ==
    /\ pc[t] = "adapt_store"
    /\ nc' = [nc EXCEPT !.bandwidth_capacity = loc[t].new_capacity,
                        !.last_evolution = now]
    /\ IF op[t] = "send" THEN Goto(t, "send_load_read") /\ rc' = rc
       ELSE Return(t, 0)
    /\ UNCHANGED cityVars
    /\ UNCHANGED <<queue_lock, now, next_tag, callers, op, loc, pre,
                   sendLog, recvLog>>

(***************************************************************************)
(* send_neural_message                                                     *)
(***************************************************************************)
\* a capacity check that tries to adapt on every send
SendAlwaysAdapt(load, capacity) == TRUE

\* a capacity check that counts the message being sent
SendAdaptWhenFull(load, capacity) == ULongGe(load + 1, capacity)

\* if (nc->current_load >= nc->bandwidth_capacity)
SendMustAdapt(load, capacity) == ULongGe(load, capacity)

\* nc->current_load++
LoadAfterSend(load) == load + 1

\* a receive that leaves the load as it is
LoadKeptByReceive(load) == load

\* nc->current_load--
LoadAfterReceive(load) == load - 1

SendCall(t, limit, priorities) ==
    /\ next_tag < limit
    /\ \E p \in priorities :
          Enter(t, "send", "send_load",
                [tag |-> next_tag + 1, cognitive_priority |-> p,
                 timestamp |-> 0])
    /\ next_tag' = next_tag + 1
    /\ UNCHANGED cityVars
    /\ UNCHANGED <<nc, queue_lock, now, callers, sendLog, recvLog>>

\* the read of nc->current_load in the capacity check
SendReadLoad(t) ==
    /\ pc[t] = "send_load"
    /\ loc' = [loc EXCEPT ![t].load = nc.current_load]
    /\ Goto(t, "send_check")
    /\ UNCHANGED cityVars
    /\ UNCHANGED <<nc, queue_lock, now, next_tag, callers, op, rc, pre,
                   sendLog, recvLog>>

\* ... >= nc->bandwidth_capacity: call adapt_neural_channel_capacity
SendCheck(t) ==
    /\ pc[t] = "send_check"
    /\ IF SendMustAdapt(loc[t].load, nc.bandwidth_capacity)
       THEN Goto(t, "adapt_load")
       ELSE Goto(t, "send_load_read")
    /\ UNCHANGED cityVars
    /\ UNCHANGED <<nc, queue_lock, now, next_tag, callers, op, loc, rc, pre,
                   sendLog, recvLog>>

\* nc->current_load++ : the read
SendLoadRead(t) ==
    /\ pc[t] = "send_load_read"
    /\ loc' = [loc EXCEPT ![t].load = nc.current_load]
    /\ Goto(t, "send_load_write")
    /\ UNCHANGED cityVars
    /\ UNCHANGED <<nc, queue_lock, now, next_tag, callers, op, rc, pre,
                   sendLog, recvLog>>

\* nc->current_load++ : the write;  msg->timestamp = time(NULL);
\* return route_neural_message(nc, msg), which is queue_neural_message
SendLoadWrite(t) ==
    /\ pc[t] = "send_load_write"
    /\ nc' = [nc EXCEPT !.current_load = LoadAfterSend(loc[t].load)]
    /\ loc' = [loc EXCEPT ![t].msg.timestamp = now, ![t].path = "routed"]
    /\ Goto(t, "queue_lock")
    /\ UNCHANGED cityVars
    /\ UNCHANGED <<queue_lock, now, next_tag, callers, op, rc, pre,
                   sendLog, recvLog>>

(***************************************************************************)
(* queue_neural_message                                                    *)
(***************************************************************************)
QueueLock(t) ==
    /\ pc[t] = "queue_lock"
    /\ queue_lock = "free"
    /\ queue_lock' = t
    /\ Goto(t, "queue_append")
    /\ UNCHANGED cityVars
    /\ UNCHANGED <<nc, now, next_tag, callers, op, loc, rc, pre,
                   sendLog, recvLog>>

QueueAppend(t) ==
    /\ pc[t] = "queue_append"
    /\ nc' = [nc EXCEPT !.message_queue = Enqueue(@, loc[t].msg)]
    /\ Goto(t, "queue_unlock")
    /\ UNCHANGED cityVars
    /\ UNCHANGED <<queue_lock, now, next_tag, callers, op, loc, rc, pre,
                   sendLog, recvLog>>

QueueUnlock(t) ==
    /\ pc[t] = "queue_unlock"
    /\ queue_lock' = "free"
    /\ Return(t, OrdinarySuccess)
    /\ UNCHANGED cityVars
    /\ UNCHANGED <<nc, now, next_tag, callers, op, loc, pre,
                   sendLog, recvLog>>

(***************************************************************************)
(* receive_neural_message                                                  *)
(***************************************************************************)
RecvCall(t) ==
    /\ Enter(t, "receive", "recv_lock", NoMessage)
    /\ UNCHANGED cityVars
    /\ UNCHANGED <<nc, queue_lock, now, next_tag, callers, sendLog, recvLog>>

RecvLock(t) ==
    /\ pc[t] = "recv_lock"
    /\ queue_lock = "free"
    /\ queue_lock' = t
    /\ Goto(t, "recv_pop")
    /\ UNCHANGED cityVars
    /\ UNCHANGED <<nc, now, next_tag, callers, op, loc, rc, pre,
                   sendLog, recvLog>>

\* msg = nc->message_queue; if (msg != nil) { nc->message_queue = msg->next;
\* and the read of nc->current_load-- }
RecvPop(t) ==
    /\ pc[t] = "recv_pop"
    /\ LET m == QueueHead(nc.message_queue) IN
       IF m = NoMessage
       THEN /\ loc' = [loc EXCEPT ![t].msg = NoMessage]
            /\ nc' = nc
            /\ Goto(t, "recv_unlock")
       ELSE /\ loc' = [loc EXCEPT ![t].msg = m, ![t].load = nc.current_load]
            /\ nc' = [nc EXCEPT !.message_queue = QueueRest(@)]
            /\ Goto(t, "recv_load_write")
    /\ UNCHANGED cityVars
    /\ UNCHANGED <<queue_lock, now, next_tag, callers, op, rc, pre,
                   sendLog, recvLog>>

\* nc->current_load-- : the write
RecvLoadWrite(t) ==
    /\ pc[t] = "recv_load_write"
    /\ nc' = [nc EXCEPT !.current_load = LoadAfterReceive(loc[t].load)]
    /\ Goto(t, "recv_unlock")
    /\ UNCHANGED cityVars
    /\ UNCHANGED <<queue_lock, now, next_tag, callers, op, loc, rc, pre,
                   sendLog, recvLog>>

\* unlock(&nc->queue_lock); return msg;
RecvUnlock(t) ==
    /\ pc[t] = "recv_unlock"
    /\ queue_lock' = "free"
    /\ Return(t, 0)
    /\ UNCHANGED cityVars
    /\ UNCHANGED <<nc, now, next_tag, callers, op, loc, pre,
                   sendLog, recvLog>>

(***************************************************************************)
(* The caller takes the result.                                            *)
(***************************************************************************)
Finish(t) ==
    /\ pc[t] = "ret"
    /\ sendLog' = IF op[t] = "send"
                  THEN Append(sendLog, [tag |-> loc[t].msg.tag,
                                        status |-> rc[t],
                                        path |-> loc[t].path,
                                        stamp |-> loc[t].arg.timestamp])
                  ELSE sendLog
    /\ recvLog' = IF op[t] = "receive" /\ loc[t].msg # NoMessage
                  THEN Append(recvLog, loc[t].msg)
                  ELSE recvLog
    /\ pc' = [pc EXCEPT ![t] = "idle"]
    /\ op' = [op EXCEPT ![t] = "none"]
    /\ loc' = [loc EXCEPT ![t] = NoLocals]
    /\ rc' = [rc EXCEPT ![t] = 0]
    /\ pre' = [pre EXCEPT ![t] = NoChannel]
    /\ UNCHANGED cityVars
    /\ UNCHANGED <<nc, queue_lock, now, next_tag, callers>>

(***************************************************************************)
(* Specifications.                                                         *)
(***************************************************************************)
\* the steps of send_neural_message and of the functions it calls
SendStep(t) ==
    \/ AdaptReadLoad(t) \/ AdaptRatio(t) \/ AdaptCompute(t) \/ AdaptStore(t)
    \/ SendReadLoad(t) \/ SendCheck(t) \/ SendLoadRead(t) \/ SendLoadWrite(t)
    \/ QueueLock(t) \/ QueueAppend(t) \/ QueueUnlock(t)
    \/ Finish(t)

Step(t) ==
    \/ SendStep(t)
    \/ RecvCall(t) \/ RecvLock(t) \/ RecvPop(t) \/ RecvLoadWrite(t)
    \/ RecvUnlock(t)
    \/ AdaptCall(t)

Next ==
    \E t \in Threads : SendCall(t, ConcSends, {1}) \/ Step(t)

NextSeq ==
    \/ CreateChannel
    \/ Tick
    \/ \E t \in Threads :
          SendCall(t, MaxSends, Priorities) \/ NilChannel(t) \/ Step(t)

NextScenarioA ==
    \/ Tick
    \/ \E t \in Threads : SendCall(t, ScenarioSends, {1}) \/ SendStep(t)

\* two concurrent callers
Spec == Init /\ [][Next]_vars

\* one caller
SeqSpec == InitSeq /\ [][NextSeq]_vars

\* one caller that only sends, on the capacity-10 channel of scenario A
ScenarioASpec == InitScenarioA /\ [][NextScenarioA]_vars

(***************************************************************************)
(* Properties.                                                             *)
(***************************************************************************)
Tags(seq) == [i \in DOMAIN seq |-> seq[i].tag]

RECURSIVE AcceptedTags(_)
\* tags of the sends that returned OrdinarySuccess, in the order they returned
AcceptedTags(log) ==
    IF log = <<>> THEN <<>>
    ELSE IF Head(log).status = OrdinarySuccess
         THEN <<Head(log).tag>> \o AcceptedTags(Tail(log))
         ELSE AcceptedTags(Tail(log))

Idle(t) == pc[t] = "idle"
Returning(t, name) == pc[t] = "ret" /\ op[t] = name /\ pre[t].created

\* C1: with one caller, the messages received so far followed by the messages
\* still queued are the accepted messages in the order they were sent,
\* whatever their priorities: the i-th receive returns the i-th message sent.
FifoOrder ==
    (nc.created /\ Idle(T1)) =>
        Tags(recvLog) \o Tags(nc.message_queue) = AcceptedTags(sendLog)

\* three messages of priorities 1, 2, 1 were sent and received in that order
FifoWitness ==
    /\ Idle(T1)
    /\ Len(recvLog) = 3
    /\ Tags(recvLog) = <<1, 2, 3>>
    /\ recvLog[1].cognitive_priority = 1
    /\ recvLog[2].cognitive_priority = 2
    /\ recvLog[3].cognitive_priority = 1
    /\ nc.message_queue = <<>>

\* a thread that has unlinked a message and not yet returned it
Holding(t, tag) ==
    /\ op[t] = "receive"
    /\ pc[t] \in {"recv_load_write", "recv_unlock", "ret"}
    /\ loc[t].msg.tag = tag

\* a thread whose send has linked its message into the queue
Linked(t, tag) ==
    /\ op[t] = "send"
    /\ pc[t] \in {"queue_unlock", "ret"}
    /\ loc[t].msg.tag = tag

Occurrences(tag) ==
    Cardinality({i \in DOMAIN nc.message_queue : nc.message_queue[i].tag = tag})
    + Cardinality({i \in DOMAIN recvLog : recvLog[i].tag = tag})
    + Cardinality({t \in Threads : Holding(t, tag)})

\* C2: with concurrent callers, every message whose send returned (on either
\* path) is in the queue or has been handed to exactly one receive, never
\* both and never twice, and nothing is queued or received that was not sent;
\* so once the queue is empty every accepted message has been received once.
NoLossNoDuplication ==
    /\ \A i \in DOMAIN sendLog :
          sendLog[i].status = OrdinarySuccess
              => Occurrences(sendLog[i].tag) = 1
    /\ \A tag \in 1..(ConcSends + 1) :
          /\ Occurrences(tag) <= 1
          /\ Occurrences(tag) = 1 =>
                \/ \E i \in DOMAIN sendLog : sendLog[i].tag = tag
                \/ \E t \in Threads : Linked(t, tag)
    /\ \A i \in DOMAIN nc.message_queue :
          nc.message_queue[i].tag \in 1..next_tag
    /\ (nc.message_queue = <<>> /\ \A t \in Threads : Idle(t)) =>
          \A i \in DOMAIN sendLog :
              sendLog[i].status = OrdinarySuccess =>
                  \E j \in DOMAIN recvLog : recvLog[j].tag = sendLog[i].tag

\* two concurrent sends were both accepted, one of them over capacity, and
\* both messages were received, the second one sent first
NoLossWitness ==
    /\ Len(sendLog) = 2
    /\ \A i \in DOMAIN sendLog : sendLog[i].status = OrdinarySuccess
    /\ \E i \in DOMAIN sendLog : sendLog[i].path = "overcap"
    /\ Tags(recvLog) = <<2, 1>>

\* C3: whenever no caller is inside the critical section the load equals the
\* number of queued messages.  Stated for the states where no caller is
\* inside any channel function at all, which are among the states the claim
\* speaks of.
LoadEqualsQueueLength ==
    (/\ nc.created
     /\ queue_lock = "free"
     /\ \A t \in Threads : pc[t] \in {"idle", "ret"}) =>
        nc.current_load = Len(nc.message_queue)

\* C4: with one caller, a send that finds current_load < bandwidth_capacity
\* appends the message at the tail, adds exactly one to the load, returns
\* ordinary success and leaves capacity and last_evolution as they were.
SendBelowCapacity ==
    (/\ Returning(T1, "send")
     /\ ~ULongGe(pre[T1].current_load, pre[T1].bandwidth_capacity)) =>
        /\ Len(nc.message_queue) = Len(pre[T1].message_queue) + 1
        /\ SubSeq(nc.message_queue, 1, Len(pre[T1].message_queue))
               = pre[T1].message_queue
        /\ nc.message_queue[Len(nc.message_queue)] = loc[T1].msg
        /\ nc.current_load = pre[T1].current_load + 1
        /\ rc[T1] = OrdinarySuccess
        /\ loc[T1].path = "routed"
        /\ nc.bandwidth_capacity = pre[T1].bandwidth_capacity
        /\ nc.last_evolution = pre[T1].last_evolution

\* a send into a channel of capacity 5 holding 3 messages has returned, at a
\* time later than the channel's last_evolution
SendBelowCapacityWitness ==
    /\ Returning(T1, "send")
    /\ pre[T1].current_load = 3
    /\ pre[T1].bandwidth_capacity = 5
    /\ Len(pre[T1].message_queue) = 3
    /\ loc[T1].msg.timestamp > pre[T1].last_evolution

AllOrdinary(log) ==
    \A i \in DOMAIN log :
        log[i].status = OrdinarySuccess /\ log[i].path = "routed"

\* C5 as claimed: after 10 sends into the fresh capacity-10 channel adaptation
\* has fired, capacity is 11, the load is 10 and all sends returned ordinary
\* success.
ScenarioAClaimed ==
    (Idle(T1) /\ Len(sendLog) = 10) =>
        /\ nc.bandwidth_capacity = 11
        /\ nc.current_load = 10
        /\ AllOrdinary(sendLog)

\* C5 as amended: after k <= 10 sends into the fresh capacity-10 channel no
\* adaptation has fired (capacity 10, last_evolution the creation time), the
\* load is k and all sends returned ordinary success; the 11th send is the
\* one that adapts: after it capacity is 11 and the load is 11.
ScenarioAAmended ==
    Idle(T1) =>
        /\ AllOrdinary(sendLog)
        /\ Len(sendLog) <= 10 =>
              /\ nc.bandwidth_capacity = 10
              /\ nc.current_load = Len(sendLog)
              /\ Len(nc.message_queue) = Len(sendLog)
              /\ nc.last_evolution = 1
        /\ Len(sendLog) = 11 =>
              /\ nc.bandwidth_capacity = 11
              /\ nc.current_load = 11
              /\ Len(nc.message_queue) = 11

\* the 10 sends of the scenario have returned
ScenarioAWitness ==
    /\ Idle(T1)
    /\ Len(sendLog) = 10
    /\ nc.current_load = 10
    /\ now > 1

\* C6: a send that found current_load >= bandwidth_capacity and whose
\* adaptation declined has queued the message, counted it in the load and
\* returns a status other than ordinary success.
QueuedOverCapacity ==
    (Returning(T1, "send") /\ loc[T1].path = "overcap") =>
        /\ nc.message_queue = Append(pre[T1].message_queue, loc[T1].msg)
        /\ nc.current_load = pre[T1].current_load + 1
        /\ rc[T1] # OrdinarySuccess

\* the real-valued load ratio of a channel is above 0.8
RatioAbove(channel) ==
    /\ channel.current_load >= 0
    /\ 5 * channel.current_load > 4 * channel.bandwidth_capacity

\* C7: adapt_neural_channel_capacity called with capacity >= 1 and a load
\* ratio above 0.8 returns success and leaves capacity at least one higher.
AdaptForwardProgress ==
    (/\ Returning(T1, "adapt")
     /\ pre[T1].bandwidth_capacity >= 1
     /\ RatioAbove(pre[T1])) =>
        /\ rc[T1] = 0
        /\ nc.bandwidth_capacity >= pre[T1].bandwidth_capacity + 1

\* C8: adapt_neural_channel_capacity never lowers capacity, and called with a
\* load ratio of at most 0.8 it returns the no-adaptation result and leaves
\* capacity and last_evolution unchanged.
AdaptMonotone ==
    Returning(T1, "adapt") =>
        /\ nc.bandwidth_capacity >= pre[T1].bandwidth_capacity
        /\ (pre[T1].bandwidth_capacity >= 1 /\ ~RatioAbove(pre[T1])) =>
              /\ rc[T1] = -1
              /\ nc.bandwidth_capacity = pre[T1].bandwidth_capacity
              /\ nc.last_evolution = pre[T1].last_evolution

\* C9: with one caller, receive never waits: the lock is free when it asks
\* for it; on an empty queue it returns nil and leaves the channel as it was;
\* on a non-empty queue it returns the head, leaves the rest queued in order,
\* takes exactly one off the load (in ulong arithmetic) and changes neither
\* capacity nor last_evolution.
ReceiveNonBlocking ==
    /\ pc[T1] = "recv_lock" => queue_lock = "free"
    /\ Returning(T1, "receive") =>
          IF pre[T1].message_queue = <<>>
          THEN loc[T1].msg = NoMessage /\ nc = pre[T1]
          ELSE /\ loc[T1].msg = Head(pre[T1].message_queue)
               /\ nc.message_queue = Tail(pre[T1].message_queue)
               /\ nc.current_load = pre[T1].current_load - 1
               /\ nc.bandwidth_capacity = pre[T1].bandwidth_capacity
               /\ nc.last_evolution = pre[T1].last_evolution

\* a receive on a queue of two messages has returned the first
ReceiveWitness ==
    /\ Returning(T1, "receive")
    /\ Len(pre[T1].message_queue) = 2
    /\ pre[T1].current_load = 2
    /\ loc[T1].msg.tag = 1

\* C10: no channel exists with an empty domain name or with capacity 0, and
\* a created channel starts with load 0, an empty queue and rate 0.1.
CreateValidates ==
    nc.created =>
        /\ nc.source_domain # ""
        /\ nc.target_domain # ""
        /\ nc.bandwidth_capacity # 0
        /\ nc.adaptation_rate = AdaptRateNum
        /\ (next_tag = 0 => nc.current_load = 0 /\ nc.message_queue = <<>>)

(***************************************************************************)
(* Cognitive namespaces.                                                   *)
(*                                                                         *)
(* A pointer is the index of the object in `namespaces`, `channels` or     *)
(* `swarms`; 0 is nil.  Every call of this layer is one action: the        *)
(* callers are sequential, and `call` records the call that returned last  *)
(* together with the state it was made in.  The arrays of cognitive_state  *)
(* are never filled by the code, so the namespaces that exist are the      *)
(* objects create_cognitive_namespace has returned.                        *)
(***************************************************************************)
MaxNamespaces == 5
MaxBinds == 1

DomainNames == {"transportation", "water"}

\* the fields create_cognitive_namespace sets
NewNamespace(domain, namespace_path, t) ==
    [domain |-> domain,
     namespace_path |-> namespace_path,
     cognitive_load |-> 0,
     last_adaptation |-> t,
     channels |-> <<>>,
     channel_count |-> 0]

\* cns->channels[cns->channel_count] = nc; cns->channel_count++;
Bound(cns, ch) ==
    [cns EXCEPT !.channels = Append(@, ch), !.channel_count = @ + 1]

\* the fields of a channel the namespace and swarm functions can reach: they
\* never follow message_queue, whose length current_load stands for
CityChannel(channel) ==
    [f \in DOMAIN channel \ {"message_queue"} |-> channel[f]]

\* a channel after n messages were sent on it and none received
Loaded(channel, n) == [channel EXCEPT !.current_load = n]

\* the state the calling thread sees when it makes a call
Snapshot ==
    [namespaces |-> namespaces, channels |-> channels, swarms |-> swarms,
     patterns |-> patterns, now |-> now]

\* the record of a call: `ref` is the namespace or swarm passed (for a
\* create, the object returned), `ch` the channel passed, `arg` a name
\* passed, `again` whether the call before it was the same call
Called(name, ref, ch, arg, status) ==
    [name |-> name, ref |-> ref, ch |-> ch, arg |-> arg, status |-> status,
     before |-> Snapshot,
     again |-> call.name = name /\ call.ref = ref /\ call.ch = ch]

\* the namespace_path the callers pass for a domain
DomainPath(domain) == "/cognitive-cities/domains/" \o domain

\* create_initial_cognitive_domains, with the binds of
\* create_interdomain_channels
StartupNamespaces ==
    <<Bound(Bound(NewNamespace("transportation",
                               DomainPath("transportation"), 1), 1), 2),
      Bound(Bound(NewNamespace("energy", DomainPath("energy"), 1), 1), 3),
      Bound(Bound(NewNamespace("governance", DomainPath("governance"), 1),
                  2), 4),
      Bound(Bound(NewNamespace("environment", DomainPath("environment"), 1),
                  3), 4)>>

\* create_interdomain_channels
StartupChannels ==
    <<CityChannel(NewChannel("transportation", "energy", 500, 1)),
      CityChannel(NewChannel("transportation", "governance", 300, 1)),
      CityChannel(NewChannel("energy", "environment", 400, 1)),
      CityChannel(NewChannel("governance", "environment", 200, 1))>>

\* loads of the four start-up channels when the calls begin; each is reached
\* by that many sends below the capacity of its channel
StartupLoads ==
    {<<150, 50, 0, 0>>,
     <<152, 50, 0, 0>>,
     <<450, 50, 350, 190>>,
     <<400, 300, 0, 171>>}

\* cognitive_cities_init has run at time 1; no thread is inside the channel
\* layer
InitCity ==
    /\ queue_lock = "free"
    /\ next_tag = 0
    /\ pc = [t \in Threads |-> "idle"]
    /\ op = [t \in Threads |-> "none"]
    /\ loc = [t \in Threads |-> NoLocals]
    /\ rc = [t \in Threads |-> 0]
    /\ pre = [t \in Threads |-> NoChannel]
    /\ sendLog = <<>>
    /\ recvLog = <<>>
    /\ nc = NoChannel
    /\ callers = {}
    /\ namespaces = StartupNamespaces
    /\ aux = [a \in Agents |-> 0]
    /\ call = NoCall
    /\ patterns = <<>>
    /\ locks = [l \in LockIds |-> "free"]
    /\ cognitive_state = ZeroedState

\* right after start-up
InitDomains ==
    /\ InitCity
    /\ now = 1
    /\ swarms = <<>>
    /\ channels = StartupChannels

\* later, after some traffic on the four channels
InitLoaded ==
    /\ InitCity
    /\ now = 2
    /\ swarms = <<>>
    /\ \E loads \in StartupLoads :
          channels = [i \in DOMAIN StartupChannels |->
                         Loaded(StartupChannels[i], loads[i])]

\* create_cognitive_namespace: no lookup of the name, no insertion in
\* cognitive_state
CreateNamespace ==
    /\ Len(namespaces) < MaxNamespaces
    /\ \E domain \in DomainNames :
          /\ namespaces' = Append(namespaces,
                                  NewNamespace(domain, DomainPath(domain), now))
          /\ call' = Called("create_namespace", Len(namespaces) + 1, 0,
                            domain, 0)
    /\ UNCHANGED <<channels, swarms, aux, threadVars, now,
                 patterns, locks, cognitive_state>>

RECURSIVE TotalBound(_)
TotalBound(nss) ==
    IF nss = <<>> THEN 0 ELSE Head(nss).channel_count + TotalBound(Tail(nss))

\* bind_neural_channel_to_namespace
BindChannel(n, c) ==
    /\ n \in 0..Len(namespaces)
    /\ c \in 0..Len(channels)
    /\ IF n = 0 \/ c = 0
       THEN /\ call' = Called("bind", n, c, "", -1)
            /\ UNCHANGED namespaces
       ELSE /\ TotalBound(namespaces) < TotalBound(StartupNamespaces) + MaxBinds
            /\ namespaces' = [namespaces EXCEPT ![n] = Bound(@, c)]
            /\ call' = Called("bind", n, c, "", 0)
    /\ UNCHANGED <<channels, swarms, aux, threadVars, now,
                 patterns, locks, cognitive_state>>

\* total_load += cns->channels[i]->current_load;  (below 2^31 in this model)
RECURSIVE TotalLoad(_, _)
TotalLoad(refs, chs) ==
    IF refs = <<>> THEN 0
    ELSE chs[Head(refs)].current_load + TotalLoad(Tail(refs), chs)

\* a mutant of CognitiveLoad: the average rounded up
CognitiveLoadRoundedUp(total_load, channel_count) ==
    IF channel_count > 0
    THEN (total_load + channel_count - 1) \div channel_count
    ELSE 0

\* cns->cognitive_load = (int)avg_load, where avg_load is
\* (float)total_load / cns->channel_count, or 0.0 without channels; the
\* quotient of a total below 2^24 by a small count is rounded by less than
\* its distance to the next integer, so the truncation is the integer quotient
CognitiveLoad(total_load, channel_count) ==
    IF channel_count > 0 THEN total_load \div channel_count ELSE 0

\* a mutant of HighCognitiveLoad: an average of exactly 100 adapts
HighLoadAtThreshold(total_load, channel_count) ==
    channel_count > 0 /\ total_load >= 100 * channel_count

\* if (avg_load > 100.0)
HighCognitiveLoad(total_load, channel_count) ==
    channel_count > 0 /\ total_load > 100 * channel_count

\* what one call of adapt_neural_channel_capacity returns for a channel
AdaptStatus(channel) ==
    IF LoadRatioHigh(channel.current_load, channel.bandwidth_capacity)
    THEN 0 ELSE -1

\* the channel one call of adapt_neural_channel_capacity at time t leaves
AdaptedChannel(channel, t) ==
    IF LoadRatioHigh(channel.current_load, channel.bandwidth_capacity)
    THEN [channel EXCEPT
             !.bandwidth_capacity = NewCapacity(@, channel.adaptation_rate),
             !.last_evolution = t]
    ELSE channel

\* a mutant of ContinuePass: the pass ends at the first channel that declines
StopOnDecline(status) == status = 0

\* adapt_neural_channel_capacity(cns->channels[i]);   the result is dropped
ContinuePass(status) == TRUE

\* for (i = 0; i < cns->channel_count; i++) adapt_neural_channel_capacity(...)
RECURSIVE AdaptChannels(_, _, _)
AdaptChannels(refs, chs, t) ==
    IF refs = <<>> THEN chs
    ELSE LET c == Head(refs)
             adapted == [chs EXCEPT ![c] = AdaptedChannel(chs[c], t)]
         IN  IF ContinuePass(AdaptStatus(chs[c]))
             THEN AdaptChannels(Tail(refs), adapted, t)
             ELSE adapted

\* adapt_cognitive_namespace, from lock(&cns->adaptation_lock) to unlock
AdaptNamespace(n) ==
    /\ n \in 0..Len(namespaces)
    /\ IF n = 0
       THEN /\ call' = Called("adapt_namespace", 0, 0, "", -1)
            /\ UNCHANGED <<namespaces, channels>>
       ELSE LET cns == namespaces[n]
                refs == SubSeq(cns.channels, 1, cns.channel_count)
                total_load == TotalLoad(refs, channels)
                high == HighCognitiveLoad(total_load, cns.channel_count)
            IN  /\ namespaces' =
                      [namespaces EXCEPT
                          ![n].cognitive_load =
                              CognitiveLoad(total_load, cns.channel_count),
                          ![n].last_adaptation = IF high THEN now ELSE @]
                /\ channels' = IF high
                               THEN AdaptChannels(refs, channels, now)
                               ELSE channels
                /\ call' = Called("adapt_namespace", n, 0, "", 0)
    /\ UNCHANGED <<swarms, aux, threadVars, now,
                 patterns, locks, cognitive_state>>

\* the pointers the callers of the adaptation pass bind: the first
\* namespace, and a channel it holds and one it does not
AdaptBindNamespaces == {1}
AdaptBindChannels == {1, 4}

NextDomains ==
    \/ CreateNamespace
    \/ \E n \in 0..MaxNamespaces, c \in 0..Len(StartupChannels) :
          BindChannel(n, c)

NextAdapt ==
    \/ CreateNamespace
    \/ \E n \in AdaptBindNamespaces, c \in AdaptBindChannels :
          BindChannel(n, c)
    \/ \E n \in 0..MaxNamespaces : AdaptNamespace(n)

\* sequential create and bind calls after start-up
DomainSpec == InitDomains /\ [][NextDomains]_vars

\* sequential create, bind and adapt calls on the loaded start-up namespaces
AdaptSpec == InitLoaded /\ [][NextAdapt]_vars

(***************************************************************************)
(* Properties of the namespace layer.                                      *)
(***************************************************************************)
\* the channels a namespace references, as a set
ChannelSet(cns) == {cns.channels[k] : k \in 1..cns.channel_count}

\* the namespaces of a state that bear a name
Named(nss, domain) == {i \in DOMAIN nss : nss[i].domain = domain}

\* C11: a create_cognitive_namespace for a name that a namespace already
\* bears fails (returns nil) and leaves the namespaces as they were, so no
\* two namespaces ever bear the same name.
UniqueDomainNames ==
    /\ \A i, j \in DOMAIN namespaces :
          namespaces[i].domain = namespaces[j].domain => i = j
    /\ (call.name = "create_namespace"
          /\ Named(call.before.namespaces, call.arg) # {})
       => (call.ref = 0 /\ namespaces = call.before.namespaces)

\* C12: a bind of a channel the namespace already references leaves the
\* namespace as it was, so no namespace references a channel twice and
\* channel_count counts distinct channels; a bind of a nil channel returns
\* -1 and changes nothing.
BindIdempotent ==
    /\ \A i \in DOMAIN namespaces :
          Cardinality(ChannelSet(namespaces[i])) = namespaces[i].channel_count
    /\ call.name = "bind" =>
          /\ call.ch = 0 =>
                (call.status = -1 /\ namespaces = call.before.namespaces)
          /\ (call.ref # 0 /\ call.ch # 0
                /\ call.ch \in ChannelSet(call.before.namespaces[call.ref]))
             => namespaces = call.before.namespaces

\* the nil half of C12 on its own: a bind with a nil namespace or a nil
\* channel returns -1 and changes nothing
BindNilRejected ==
    (call.name = "bind" /\ (call.ref = 0 \/ call.ch = 0))
    => (call.status = -1 /\ namespaces = call.before.namespaces
          /\ channels = call.before.channels)

\* C13: every channel a namespace references has the name of that namespace
\* as its source_domain or its target_domain.
EndpointInvariant ==
    \A i \in DOMAIN namespaces : \A c \in ChannelSet(namespaces[i]) :
        \/ channels[c].source_domain = namespaces[i].domain
        \/ channels[c].target_domain = namespaces[i].domain

\* the start-up wiring on its own satisfies the endpoint invariant
StartupEndpoints ==
    \A i \in DOMAIN StartupNamespaces :
        \A c \in ChannelSet(StartupNamespaces[i]) :
            \/ StartupChannels[c].source_domain = StartupNamespaces[i].domain
            \/ StartupChannels[c].target_domain = StartupNamespaces[i].domain

\* an adapt_cognitive_namespace call on a namespace has returned
Adapted == call.name = "adapt_namespace" /\ call.ref # 0

\* the namespace the last call was made on, as it was before the call
Was == call.before.namespaces[call.ref]

\* the loads the channels of a namespace had before the last call, with the
\* sum of the first k of them
LoadsWas == [k \in 1..Was.channel_count |->
                call.before.channels[Was.channels[k]].current_load]

RECURSIVE SumWas(_)
SumWas(k) == IF k = 0 THEN 0 ELSE LoadsWas[k] + SumWas(k - 1)

\* C14: after adapt_cognitive_namespace returns, cognitive_load is the sum of
\* the loads of the bound channels divided by their number, rounded down,
\* and 0 for a namespace without channels.
LoadAggregation ==
    Adapted =>
        LET count == Was.channel_count
            load == namespaces[call.ref].cognitive_load
        IN  IF count = 0 THEN load = 0
            ELSE /\ load * count <= SumWas(count)
                 /\ SumWas(count) < (load + 1) * count

\* an adapt call on a namespace whose average load is not an integer
LoadAggregationWitness ==
    /\ Adapted
    /\ Was.channel_count = 2
    /\ SumWas(2) = 471
    /\ namespaces[call.ref].cognitive_load = 235

\* an adapt call on a namespace without channels
LoadAggregationNoChannels ==
    /\ Adapted
    /\ Was.channel_count = 0
    /\ namespaces[call.ref].cognitive_load = 0

\* the average load before the last call was above 100
AverageAbove == SumWas(Was.channel_count) > 100 * Was.channel_count

\* C15: adapt_cognitive_namespace with an average load of at most 100
\* changes no channel and leaves last_adaptation alone; with an average
\* above 100 it sets last_adaptation to the time of the call and every
\* channel of the namespace whose load ratio is above 0.8 has been adapted
\* at that time.
AdaptThreshold ==
    Adapted =>
        IF AverageAbove
        THEN /\ namespaces[call.ref].last_adaptation = call.before.now
             /\ \A c \in ChannelSet(Was) :
                   RatioAbove(call.before.channels[c])
                   => channels[c].last_evolution = call.before.now
        ELSE /\ channels = call.before.channels
             /\ namespaces[call.ref].last_adaptation = Was.last_adaptation

\* scenario B: an adapt call on a namespace with channels at loads 150 and
\* 50, made after the time of its creation
AdaptThresholdWitness ==
    /\ Adapted
    /\ LoadsWas = <<150, 50>>
    /\ Was.last_adaptation < call.before.now
    /\ namespaces[call.ref].last_adaptation = Was.last_adaptation

\* an adapt call on a namespace with channels at loads 152 and 50
AdaptAboveThresholdWitness ==
    /\ Adapted
    /\ LoadsWas = <<152, 50>>
    /\ namespaces[call.ref].cognitive_load = 101
    /\ namespaces[call.ref].last_adaptation = call.before.now
    /\ Was.last_adaptation < call.before.now

\* C16: a second adapt_cognitive_namespace right after a first one on the
\* same namespace leaves the capacity of every bound channel and the
\* cognitive_load as the first call left them; and one call adapts each
\* bound channel at most once.
AdaptIdempotent ==
    Adapted =>
        /\ call.again =>
              /\ \A c \in ChannelSet(Was) :
                    channels[c].bandwidth_capacity
                        = call.before.channels[c].bandwidth_capacity
              /\ namespaces[call.ref].cognitive_load = Was.cognitive_load
        /\ \A c \in ChannelSet(Was) :
              LET capacity == call.before.channels[c].bandwidth_capacity
              IN  channels[c].bandwidth_capacity
                      \in {capacity, NewCapacity(capacity, AdaptRateNum)}

\* the second half of C16 on its own
AdaptedOncePerPass ==
    Adapted =>
        \A c \in ChannelSet(Was) :
            LET capacity == call.before.channels[c].bandwidth_capacity
            IN  channels[c].bandwidth_capacity
                    \in {capacity, NewCapacity(capacity, AdaptRateNum)}

\* the cognitive_load half of C16 on its own
AdaptLoadStable ==
    (Adapted /\ call.again)
    => namespaces[call.ref].cognitive_load = Was.cognitive_load

\* the capacity half of C16 on its own, for namespaces that reference no
\* channel twice
AdaptCapacityStable ==
    (Adapted /\ call.again
       /\ Cardinality(ChannelSet(Was)) = Was.channel_count)
    => \A c \in ChannelSet(Was) :
          channels[c].bandwidth_capacity
              = call.before.channels[c].bandwidth_capacity

\* C17: adapt_cognitive_namespace on a namespace returns 0; when the average
\* load is above 100, every bound channel whose load ratio is above 0.8 has
\* been adapted by the time the call returns (its capacity raised by the
\* adaptation rate, last_evolution set to the time of the call), whether or
\* not a channel before it in the array declined.
BestEffortCascade ==
    Adapted =>
        /\ call.status = 0
        /\ AverageAbove =>
              \A c \in ChannelSet(Was) :
                  LET channel == call.before.channels[c]
                  IN  RatioAbove(channel) =>
                         /\ channels[c].last_evolution = call.before.now
                         /\ channels[c].bandwidth_capacity
                               >= NewCapacity(channel.bandwidth_capacity,
                                              channel.adaptation_rate)

\* an adapt call whose first channel declines (ratio 50/300) and whose
\* second channel is adapted (ratio 190/200)
BestEffortWitness ==
    /\ Adapted
    /\ AverageAbove
    /\ Was.channel_count = 2
    /\ ~RatioAbove(call.before.channels[Was.channels[1]])
    /\ RatioAbove(call.before.channels[Was.channels[2]])
    /\ channels[Was.channels[1]] = call.before.channels[Was.channels[1]]
    /\ channels[Was.channels[2]].bandwidth_capacity
          > call.before.channels[Was.channels[2]].bandwidth_capacity
    /\ call.status = 0

(***************************************************************************)
(* Cognitive swarms.                                                       *)
(*                                                                         *)
(* The floats of calculate_swarm_coherence are kept as fractions num/den   *)
(* with den > 0: the exact values the float expressions round.  Rounding   *)
(* to nearest keeps a value on its side of 0 and of 1, which are floats.   *)
(***************************************************************************)
MaxSwarms == 2
MaxAgents == 2

SwarmIds == {"traffic-swarm"}
SwarmDomains == {"transportation", "nowhere"}

\* the Proc pointers passed to add_agent_to_swarm; "nil" is the nil pointer
AgentArgs == Agents \cup {"nil"}

\* the swarm whose pointer the callers of add_agent_to_swarm hold, and nil
AddAgentSwarms == {0, 1}

\* loads of the coordination channel of the first swarm when the calls
\* begin: 1001 is left by two sends that both read a load of 999 below the
\* capacity 1000 before either counted its message
CoordinationLoads == {0, 500, 1000, 1001}

Fraction(num, den) == [num |-> num, den |-> den]

\* the fields create_cognitive_swarm sets; pgrp is not used by this layer
NewSwarm(swarm_id, domain, coordination_channel, t) ==
    [swarm_id |-> swarm_id,
     domain |-> domain,
     agents |-> <<>>,
     agent_count |-> 0,
     coordination_channel |-> coordination_channel,
     coherence_level |-> Fraction(1, 1),
     creation_time |-> t]

\* create_neural_channel(domain, "swarm-coordination", 1000)
CoordinationChannel(domain, t) ==
    CityChannel(NewChannel(domain, "swarm-coordination", 1000, t))

\* after start-up, a swarm of the transportation domain was created at time
\* 1 and messages went over its coordination channel
InitSwarms ==
    /\ InitCity
    /\ now = 2
    /\ \E load \in CoordinationLoads :
          channels = Append(StartupChannels,
                            Loaded(CoordinationChannel("transportation", 1),
                                   load))
    /\ swarms = <<NewSwarm("traffic-swarm", "transportation",
                           Len(StartupChannels) + 1, 1)>>

\* create_cognitive_swarm: the domain is copied, never looked up
CreateSwarm(swarm_id, domain) ==
    /\ Len(swarms) < MaxSwarms
    /\ channels' = Append(channels, CoordinationChannel(domain, now))
    /\ swarms' = Append(swarms,
                        NewSwarm(swarm_id, domain, Len(channels) + 1, now))
    /\ call' = Called("create_swarm", Len(swarms) + 1, Len(channels) + 1,
                      domain, 0)
    /\ UNCHANGED <<namespaces, aux, threadVars, now,
                 patterns, locks, cognitive_state>>

\* add_agent_to_swarm, from lock(&swarm->swarm_lock) to unlock
AddAgent(s, agent) ==
    /\ s \in 0..Len(swarms)
    /\ IF s = 0 \/ agent = "nil"
       THEN /\ call' = Called("add_agent", s, 0, agent, -1)
            /\ UNCHANGED <<swarms, aux>>
       ELSE /\ swarms[s].agent_count < MaxAgents
            /\ swarms' = [swarms EXCEPT ![s].agents = Append(@, agent),
                                        ![s].agent_count = @ + 1]
            /\ aux' = [aux EXCEPT ![agent] = s]
            /\ call' = Called("add_agent", s, 0, agent, 0)
    /\ UNCHANGED <<namespaces, channels, threadVars, now,
                 patterns, locks, cognitive_state>>

\* load_factor = 1.0 - ((float)current_load / bandwidth_capacity), not
\* clamped; loads and capacities here are below 2^31 and the capacity is
\* never 0
LoadFactor(channel) ==
    Fraction(channel.bandwidth_capacity - channel.current_load,
             channel.bandwidth_capacity)

\* size_factor = 1.0 / (1.0 + (agent_count / 10.0))
SizeFactor(agent_count) == Fraction(10, 10 + agent_count)

\* base_coherence * load_factor * size_factor, with base_coherence 1.0 and
\* load_factor 1.0 when the swarm has no coordination channel
CoherenceLevel(swarm, chs) ==
    LET load_factor == IF swarm.coordination_channel = 0 THEN Fraction(1, 1)
                       ELSE LoadFactor(chs[swarm.coordination_channel])
        size_factor == SizeFactor(swarm.agent_count)
    IN  Fraction(load_factor.num * size_factor.num,
                 load_factor.den * size_factor.den)

\* calculate_swarm_coherence; the value returned is call.status
CalculateCoherence(s) ==
    /\ s \in 0..Len(swarms)
    /\ IF s = 0 \/ swarms[s].agent_count = 0
       THEN /\ call' = Called("coherence", s, 0, "", Fraction(0, 1))
            /\ UNCHANGED swarms
       ELSE LET level == CoherenceLevel(swarms[s], channels)
            IN  /\ swarms' = [swarms EXCEPT ![s].coherence_level = level]
                /\ call' = Called("coherence", s, 0, "", level)
    /\ UNCHANGED <<namespaces, channels, aux, threadVars, now,
                 patterns, locks, cognitive_state>>

NextSwarms ==
    \/ \E swarm_id \in SwarmIds, domain \in SwarmDomains :
          CreateSwarm(swarm_id, domain)
    \/ \E s \in AddAgentSwarms, agent \in AgentArgs : AddAgent(s, agent)
    \/ \E s \in 0..MaxSwarms : CalculateCoherence(s)

\* sequential calls of the swarm layer
SwarmSpec == InitSwarms /\ [][NextSwarms]_vars

(***************************************************************************)
(* Properties of the swarm layer.                                          *)
(***************************************************************************)
\* the agents of a swarm, as a set
AgentSet(swarm) == {swarm.agents[k] : k \in 1..swarm.agent_count}

\* a fraction num/den with den > 0 lies in [0, 1]
InUnitInterval(f) == f.den > 0 /\ 0 <= f.num /\ f.num <= f.den

\* what a create_cognitive_swarm that succeeded has set up: no agents,
\* coherence 1.0, and a coordination channel of its own from the domain to
\* "swarm-coordination"
SwarmCreated ==
    call.name = "create_swarm" =>
        LET swarm == swarms[call.ref]
            channel == channels[swarm.coordination_channel]
        IN  /\ call.ref = Len(call.before.swarms) + 1
            /\ swarm.agents = <<>>
            /\ swarm.agent_count = 0
            /\ swarm.coherence_level = Fraction(1, 1)
            /\ swarm.domain = call.arg
            /\ swarm.coordination_channel = Len(call.before.channels) + 1
            /\ channel.source_domain = call.arg
            /\ channel.target_domain = "swarm-coordination"
            /\ channel.current_load = 0
            /\ \A i \in DOMAIN swarms :
                  i # call.ref => swarms[i].coordination_channel
                                     # swarm.coordination_channel
            /\ \A i \in DOMAIN namespaces :
                  swarm.coordination_channel \notin ChannelSet(namespaces[i])

\* C18: a create_cognitive_swarm for a domain that no namespace bears fails
\* and creates neither a swarm nor a channel, so every swarm belongs to an
\* existing domain; a create that succeeds yields a swarm without agents,
\* with coherence 1.0 and a coordination channel of its own.
SwarmNeedsDomain ==
    /\ \A i \in DOMAIN swarms : Named(namespaces, swarms[i].domain) # {}
    /\ call.name = "create_swarm" =>
          IF Named(call.before.namespaces, call.arg) = {}
          THEN /\ swarms = call.before.swarms
               /\ channels = call.before.channels
          ELSE SwarmCreated

\* C19: an add_agent_to_swarm for an agent that is already in the swarm is
\* rejected and leaves agents and agent_count as they were, so no agent is
\* twice in a swarm.
MembersAreSet ==
    /\ \A i \in DOMAIN swarms :
          Cardinality(AgentSet(swarms[i])) = swarms[i].agent_count
    /\ (call.name = "add_agent" /\ call.ref # 0
          /\ call.arg \in AgentSet(call.before.swarms[call.ref]))
       => (call.status # 0 /\ swarms = call.before.swarms)

\* the zero-member half of C20 on its own: a swarm without agents has
\* coherence exactly 0.0 and its coherence_level field is not written
CoherenceOfEmptySwarm ==
    (call.name = "coherence" /\ call.ref # 0
       /\ call.before.swarms[call.ref].agent_count = 0)
    => (call.status = Fraction(0, 1) /\ swarms = call.before.swarms)

\* C20: calculate_swarm_coherence returns a value in [0, 1] for every swarm,
\* whatever its agent count and the load of its coordination channel, and
\* exactly 0.0 for a swarm without agents; the coherence_level it stores
\* stays in [0, 1].
CoherenceBounds ==
    /\ \A i \in DOMAIN swarms : InUnitInterval(swarms[i].coherence_level)
    /\ call.name = "coherence" => InUnitInterval(call.status)
    /\ CoherenceOfEmptySwarm

\* C20 without loads above the capacity: with current_load at most
\* bandwidth_capacity the value is in [0, 1]
CoherenceBoundsWithinCapacity ==
    (call.name = "coherence" /\ call.ref # 0
       /\ LET channel == call.before.channels[
                             call.before.swarms[call.ref].coordination_channel]
          IN  channel.current_load <= channel.bandwidth_capacity)
    => InUnitInterval(call.status)

\* 1 - current_load / bandwidth_capacity clamped to [0, 1], and 0 for a
\* capacity of 0: the load factor as the coherence formula is stated
ClampedLoadFactor(channel) ==
    IF channel.bandwidth_capacity = 0
       \/ channel.current_load >= channel.bandwidth_capacity
    THEN Fraction(0, 1)
    ELSE Fraction(channel.bandwidth_capacity - channel.current_load,
                  channel.bandwidth_capacity)

\* two fractions with positive denominators denote the same number
SameFraction(f, g) == f.num * g.den = g.num * f.den

\* a calculate_swarm_coherence on the same swarm directly after another one
\* returns what the first one stored
CoherenceRepeatable ==
    (call.name = "coherence" /\ call.again /\ call.ref # 0
       /\ call.before.swarms[call.ref].agent_count >= 1)
    => SameFraction(call.status,
                    call.before.swarms[call.ref].coherence_level)

\* C21: for a swarm with at least one agent calculate_swarm_coherence
\* returns loadFactor * sizeFactor, where loadFactor is 1 - current_load /
\* bandwidth_capacity of the coordination channel clamped to [0, 1] and
\* sizeFactor is 1 / (1 + agent_count / 10); a second call with no change in
\* between returns the same value.
CoherenceFormula ==
    /\ (call.name = "coherence" /\ call.ref # 0
          /\ call.before.swarms[call.ref].agent_count >= 1)
       => LET swarm == call.before.swarms[call.ref]
              load_factor ==
                  ClampedLoadFactor(
                      call.before.channels[swarm.coordination_channel])
          IN  SameFraction(call.status,
                           Fraction(load_factor.num * 10,
                                    load_factor.den
                                       * (10 + swarm.agent_count)))
    /\ CoherenceRepeatable

(***************************************************************************)
(* Emergence detection: detect_emergent_pattern.  The patterns are the     *)
(* objects the calls returned; cognitive_state.patterns stays nil, since   *)
(* nothing inserts into it.                                                *)
(***************************************************************************)
MaxPatterns == 3

PatternNames == {"sync", "flow"}

\* the domains[] arrays the callers pass, domain_count being the length
DomainLists == {<<>>, <<"t", "e">>, <<"e", "g">>}

\* the fields detect_emergent_pattern sets; the three times are the three
\* time(NULL) it reads, pattern_id being "pattern-" followed by the first
NewPattern(pattern_name, domains, t_id, t_first, t_last) ==
    [pattern_id |-> t_id,
     pattern_name |-> pattern_name,
     first_observed |-> t_first,
     last_observed |-> t_last,
     observation_count |-> 1,
     significance_score |-> Fraction(1, 2),
     involved_domains |-> domains,
     domain_count |-> Len(domains)]

\* detect_emergent_pattern: always a new object, no look at the name or at
\* domain_count; the clock may advance between the reads of time(NULL)
DetectEmergentPattern(pattern_name, domains) ==
    /\ Len(patterns) < MaxPatterns
    /\ \E t_id \in now..MaxTime :
          \E t_first \in t_id..MaxTime :
             \E t_last \in t_first..MaxTime :
                /\ patterns' = Append(patterns,
                                      NewPattern(pattern_name, domains,
                                                 t_id, t_first, t_last))
                /\ now' = t_last
    /\ call' = Called("detect", Len(patterns) + 1, 0,
                      [pattern_name |-> pattern_name, domains |-> domains],
                      0)
    /\ UNCHANGED <<namespaces, channels, swarms, aux, locks, cognitive_state,
                   threadVars>>

NextPatterns ==
    \E pattern_name \in PatternNames, domains \in DomainLists :
       DetectEmergentPattern(pattern_name, domains)

\* sequential calls of detect_emergent_pattern after start-up
PatternSpec == InitDomains /\ [][NextPatterns]_vars

(***************************************************************************)
(* Properties of emergence detection.                                      *)
(***************************************************************************)
\* the patterns of a sequence that bear a name
PatternsNamed(ps, pattern_name) ==
    {i \in DOMAIN ps : ps[i].pattern_name = pattern_name}

\* the involved_domains of a pattern, as a set
DomainSet(pattern) ==
    {pattern.involved_domains[k] : k \in 1..pattern.domain_count}

\* the last call was a detect_emergent_pattern for a name no earlier call
\* was made for
FirstDetect ==
    /\ call.name = "detect"
    /\ PatternsNamed(call.before.patterns, call.arg.pattern_name) = {}

\* the last call was a detect_emergent_pattern for a name an earlier call
\* was made for
ReDetect ==
    /\ call.name = "detect"
    /\ PatternsNamed(call.before.patterns, call.arg.pattern_name) # {}

\* what a first detection sets apart from the times: one new pattern, with
\* observation_count 1, significance_score 0.5 and the domains given
FirstDetectionFields ==
    FirstDetect =>
        /\ call.ref = Len(call.before.patterns) + 1
        /\ Len(patterns) = Len(call.before.patterns) + 1
        /\ patterns[call.ref].pattern_name = call.arg.pattern_name
        /\ patterns[call.ref].observation_count = 1
        /\ patterns[call.ref].significance_score = Fraction(1, 2)
        /\ DomainSet(patterns[call.ref])
              = {call.arg.domains[k] : k \in DOMAIN call.arg.domains}
        /\ \A i \in DOMAIN call.before.patterns :
              patterns[i] = call.before.patterns[i]

\* the times of a pattern are read in order from a clock that does not go
\* back
ObservedInOrder ==
    \A i \in DOMAIN patterns :
       /\ patterns[i].pattern_id <= patterns[i].first_observed
       /\ patterns[i].first_observed <= patterns[i].last_observed
       /\ patterns[i].last_observed <= now

\* C22: a detect_emergent_pattern for a name not detected before creates a
\* pattern with observation_count 1, significance_score 0.5 whatever the
\* domains, first_observed equal to last_observed, and the domains given.
FirstDetection ==
    /\ FirstDetectionFields
    /\ FirstDetect =>
          patterns[call.ref].first_observed
             = patterns[call.ref].last_observed

\* the pattern a re-detection is for: the one of that name created first
Existing ==
    CHOOSE i \in PatternsNamed(call.before.patterns, call.arg.pattern_name) :
       \A j \in PatternsNamed(call.before.patterns, call.arg.pattern_name) :
          i <= j

\* significance + 0.05, at most 1.0
Reinforced(significance) ==
    IF significance.num * 20 + significance.den >= significance.den * 20
    THEN Fraction(1, 1)
    ELSE Fraction(significance.num * 20 + significance.den,
                  significance.den * 20)

\* a fraction is at most another, both with positive denominators
AtMost(f, g) == f.num * g.den <= g.num * f.den

\* C23: whatever detect_emergent_pattern calls were made, no two patterns
\* bear the same name; a second call for a name returns the pattern of the
\* first call, which then has observation_count 2 and significance_score
\* 0.55, and creates no pattern.
PatternDeduplication ==
    /\ \A i, j \in DOMAIN patterns :
          patterns[i].pattern_name = patterns[j].pattern_name => i = j
    /\ (ReDetect /\ call.before.patterns[Existing].observation_count = 1)
       => /\ call.ref = Existing
          /\ Len(patterns) = Len(call.before.patterns)
          /\ patterns[Existing].observation_count = 2
          /\ SameFraction(patterns[Existing].significance_score,
                          Fraction(55, 100))

\* no call lowers the significance_score of a pattern or takes it out of
\* [0, 1]
SignificanceMonotone ==
    /\ \A i \in DOMAIN patterns :
          InUnitInterval(patterns[i].significance_score)
    /\ call.name = "detect" =>
          \A i \in DOMAIN call.before.patterns :
             AtMost(call.before.patterns[i].significance_score,
                    patterns[i].significance_score)

\* C24: each re-detection of a name sets the pattern's significance_score to
\* min(1.0, significance_score + 0.05) and adds 1 to its observation_count;
\* over any sequence of calls the significance_score of a pattern never
\* decreases and never exceeds 1.0.
SignificanceGrowth ==
    /\ SignificanceMonotone
    /\ ReDetect =>
          /\ SameFraction(
                 patterns[Existing].significance_score,
                 Reinforced(call.before.patterns[Existing].significance_score))
          /\ patterns[Existing].observation_count
                = call.before.patterns[Existing].observation_count + 1

\* C25: a detect_emergent_pattern with domain_count 0 fails: it returns no
\* pattern, creates none and leaves the existing ones as they were.
DetectNeedsDomains ==
    (call.name = "detect" /\ call.arg.domains = <<>>)
    => (call.ref = 0 /\ call.status # 0 /\ patterns = call.before.patterns)

\* a re-detection leaves the involved_domains of the pattern detected before
\* as they were
DomainsKept ==
    ReDetect => DomainSet(patterns[Existing])
                   = DomainSet(call.before.patterns[Existing])

\* C26: a re-detection with other domains leaves the domains of the pattern
\* as they were at its first detection, and there is a single pattern of
\* that name: after detect("sync", {t, e}) and detect("sync", {e, g}) one
\* pattern "sync" with the domains {t, e}.
ScenarioC ==
    /\ DomainsKept
    /\ (ReDetect
          /\ call.before.patterns[Existing].involved_domains = <<"t", "e">>
          /\ call.arg.domains = <<"e", "g">>)
       => /\ PatternsNamed(patterns, call.arg.pattern_name) = {Existing}
          /\ DomainSet(patterns[Existing]) = {"t", "e"}

(***************************************************************************)
(* The registry.  The source has no lookup function; Lookup is the search  *)
(* of the arrays of cognitive_state that the registry of the documentation *)
(* describes, an entity being the index of the object, NotFound being 0.   *)
(***************************************************************************)
NotFound == 0

\* the entry of a cognitive_state array whose object has the key
Lookup(array, count, objects, key_field, key) ==
    LET found == {k \in 1..count : objects[array[k]][key_field] = key}
    IN  IF found = {} THEN NotFound
        ELSE array[CHOOSE k \in found : \A m \in found : k <= m]

LookupDomain(key) ==
    Lookup(cognitive_state.namespaces, cognitive_state.namespace_count,
           namespaces, "domain", key)

LookupChannel(key) ==
    Lookup(cognitive_state.channels, cognitive_state.channel_count,
           channels, "channel_id", key)

LookupGroup(key) ==
    Lookup(cognitive_state.swarms, cognitive_state.swarm_count,
           swarms, "swarm_id", key)

LookupPattern(key) ==
    Lookup(cognitive_state.patterns, cognitive_state.pattern_count,
           patterns, "pattern_name", key)

\* the keys of the objects of a sequence
Keys(objects, key_field) ==
    {objects[i][key_field] : i \in DOMAIN objects}

\* a lookup of a key no object was created with finds nothing
LookupOfUnknown ==
    /\ \A key \in DomainNames \ Keys(namespaces, "domain") :
          LookupDomain(key) = NotFound
    /\ \A key \in SwarmIds \ Keys(swarms, "swarm_id") :
          LookupGroup(key) = NotFound
    /\ \A key \in PatternNames \ Keys(patterns, "pattern_name") :
          LookupPattern(key) = NotFound

\* C27: a lookup by the key of a namespace, channel, swarm or pattern that
\* was created, the four namespaces and four channels of start-up included,
\* returns an object with that key; a lookup of a key nothing was created
\* with returns NotFound.
RegistryLookup ==
    /\ \A i \in DOMAIN namespaces :
          /\ LookupDomain(namespaces[i].domain) # NotFound
          /\ namespaces[LookupDomain(namespaces[i].domain)].domain
                = namespaces[i].domain
    /\ \A i \in DOMAIN channels :
          /\ LookupChannel(channels[i].channel_id) # NotFound
          /\ channels[LookupChannel(channels[i].channel_id)].channel_id
                = channels[i].channel_id
    /\ \A i \in DOMAIN swarms :
          /\ LookupGroup(swarms[i].swarm_id) # NotFound
          /\ swarms[LookupGroup(swarms[i].swarm_id)].swarm_id
                = swarms[i].swarm_id
    /\ \A i \in DOMAIN patterns :
          /\ LookupPattern(patterns[i].pattern_name) # NotFound
          /\ patterns[LookupPattern(patterns[i].pattern_name)].pattern_name
                = patterns[i].pattern_name
    /\ LookupOfUnknown

(***************************************************************************)
(* adapt_cognitive_namespace step by step, for threads that call it at the *)
(* same time.  A thread's loc holds cns (the index of the namespace), the  *)
(* loop index i (from 1), total_load, current_time and new_capacity.       *)
(***************************************************************************)
\* a mutant of CanAcquire: a lock that never makes a thread wait
AcquireAlways(holder) == TRUE

\* lock(l) returns once the lock is free
CanAcquire(holder) == holder = "free"

\* a mutant of Released: an unlock that leaves the lock with its holder
StillHeld(holder) == holder

\* unlock(l)
Released(holder) == "free"

AdaptationLock(n) == <<"adaptation_lock", n>>

\* the namespaces the threads pass, 0 being nil: transportation and energy,
\* which share the first channel
PassNamespaces == {0, 1, 2}

\* a mutant of PassChannel: the i-th channel there is, bound or not
ChannelByIndex(cns, i) == i

\* cns->channels[i]
PassChannel(cns, i) == cns.channels[i]

\* if (cns == nil) return -1;
NsAdaptCall(t, n) ==
    /\ pc[t] = "idle"
    /\ t \in callers
    /\ op' = [op EXCEPT ![t] = "adapt_namespace"]
    /\ loc' = [loc EXCEPT ![t] = [cns |-> n, i |-> 0, total_load |-> 0,
                                  current_time |-> 0, new_capacity |-> 0]]
    /\ IF n = 0 THEN Return(t, -1) ELSE Goto(t, "ns_lock") /\ rc' = rc
    /\ UNCHANGED <<namespaces, channels, swarms, aux, call, patterns, locks,
                   cognitive_state>>
    /\ UNCHANGED <<nc, queue_lock, now, next_tag, callers, pre, sendLog,
                   recvLog>>

\* lock(&cns->adaptation_lock);  current_time = time(NULL);
NsLock(t) ==
    /\ pc[t] = "ns_lock"
    /\ CanAcquire(locks[AdaptationLock(loc[t].cns)])
    /\ locks' = [locks EXCEPT ![AdaptationLock(loc[t].cns)] = t]
    /\ loc' = [loc EXCEPT ![t].current_time = now, ![t].i = 1]
    /\ Goto(t, "ns_sum")
    /\ UNCHANGED <<namespaces, channels, swarms, aux, call, patterns,
                   cognitive_state>>
    /\ UNCHANGED <<nc, queue_lock, now, next_tag, callers, op, rc, pre,
                   sendLog, recvLog>>

\* total_load += cns->channels[i]->current_load, and after the loop
\* cns->cognitive_load = (int)avg_load;  if (avg_load > 100.0)
NsSum(t) ==
    /\ pc[t] = "ns_sum"
    /\ LET n == loc[t].cns
           cns == namespaces[n]
       IN  IF loc[t].i <= cns.channel_count
           THEN /\ loc' = [loc EXCEPT
                              ![t].total_load =
                                  @ + channels[PassChannel(cns, loc[t].i)]
                                         .current_load,
                              ![t].i = @ + 1]
                /\ UNCHANGED <<pc, namespaces>>
           ELSE /\ namespaces' =
                      [namespaces EXCEPT
                          ![n].cognitive_load =
                              CognitiveLoad(loc[t].total_load,
                                            cns.channel_count)]
                /\ loc' = [loc EXCEPT ![t].i = 1]
                /\ IF HighCognitiveLoad(loc[t].total_load, cns.channel_count)
                   THEN Goto(t, "ns_adapt")
                   ELSE Goto(t, "ns_unlock")
    /\ UNCHANGED <<channels, swarms, aux, call, patterns, locks,
                   cognitive_state>>
    /\ UNCHANGED <<nc, queue_lock, now, next_tag, callers, op, rc, pre,
                   sendLog, recvLog>>

\* for (i ...) adapt_neural_channel_capacity(cns->channels[i]): the ratio
\* test of the call, and after the loop cns->last_adaptation = current_time
NsAdapt(t) ==
    /\ pc[t] = "ns_adapt"
    /\ LET n == loc[t].cns
           cns == namespaces[n]
       IN  IF loc[t].i <= cns.channel_count
           THEN /\ IF AdaptStatus(channels[PassChannel(cns, loc[t].i)]) = 0
                   THEN Goto(t, "ns_compute") /\ loc' = loc
                   ELSE /\ loc' = [loc EXCEPT ![t].i = @ + 1]
                        /\ pc' = pc
                /\ namespaces' = namespaces
           ELSE /\ namespaces' = [namespaces EXCEPT
                                     ![n].last_adaptation =
                                         loc[t].current_time]
                /\ Goto(t, "ns_unlock")
                /\ loc' = loc
    /\ UNCHANGED <<channels, swarms, aux, call, patterns, locks,
                   cognitive_state>>
    /\ UNCHANGED <<nc, queue_lock, now, next_tag, callers, op, rc, pre,
                   sendLog, recvLog>>

\* new_capacity = nc->bandwidth_capacity * (1.0 + nc->adaptation_rate);
NsCompute(t) ==
    /\ pc[t] = "ns_compute"
    /\ LET channel == channels[PassChannel(namespaces[loc[t].cns],
                                           loc[t].i)]
       IN  loc' = [loc EXCEPT
                      ![t].new_capacity =
                          NewCapacity(channel.bandwidth_capacity,
                                      channel.adaptation_rate)]
    /\ Goto(t, "ns_store")
    /\ UNCHANGED <<namespaces, channels, swarms, aux, call, patterns, locks,
                   cognitive_state>>
    /\ UNCHANGED <<nc, queue_lock, now, next_tag, callers, op, rc, pre,
                   sendLog, recvLog>>

\* nc->bandwidth_capacity = new_capacity; nc->last_evolution = time(NULL);
NsStore(t) ==
    /\ pc[t] = "ns_store"
    /\ LET c == PassChannel(namespaces[loc[t].cns], loc[t].i)
       IN  channels' = [channels EXCEPT
                           ![c].bandwidth_capacity = loc[t].new_capacity,
                           ![c].last_evolution = now]
    /\ loc' = [loc EXCEPT ![t].i = @ + 1]
    /\ Goto(t, "ns_adapt")
    /\ UNCHANGED <<namespaces, swarms, aux, call, patterns, locks,
                   cognitive_state>>
    /\ UNCHANGED <<nc, queue_lock, now, next_tag, callers, op, rc, pre,
                   sendLog, recvLog>>

\* unlock(&cns->adaptation_lock); return 0;
NsUnlock(t) ==
    /\ pc[t] = "ns_unlock"
    /\ locks' = [locks EXCEPT ![AdaptationLock(loc[t].cns)] = Released(@)]
    /\ Return(t, 0)
    /\ UNCHANGED <<namespaces, channels, swarms, aux, call, patterns,
                   cognitive_state>>
    /\ UNCHANGED <<nc, queue_lock, now, next_tag, callers, op, loc, pre,
                   sendLog, recvLog>>

\* the steps of adapt_cognitive_namespace
NsStep(t) ==
    \/ NsLock(t) \/ NsSum(t) \/ NsAdapt(t) \/ NsCompute(t) \/ NsStore(t)
    \/ NsUnlock(t)

\* after some traffic on the four channels, both threads can call
InitPasses ==
    /\ InitCommon
    /\ nc = NoChannel
    /\ callers = Threads
    /\ namespaces = StartupNamespaces
    /\ \E loads \in StartupLoads :
          channels = [i \in DOMAIN StartupChannels |->
                         Loaded(StartupChannels[i], loads[i])]
    /\ swarms = <<>>
    /\ aux = [a \in Agents |-> 0]
    /\ call = NoCall
    /\ patterns = <<>>
    /\ locks = [l \in LockIds |-> "free"]
    /\ cognitive_state = ZeroedState

NextPasses ==
    \E t \in Threads :
       \/ \E n \in PassNamespaces : NsAdaptCall(t, n)
       \/ NsStep(t)
       \/ Finish(t)

\* threads that call adapt_cognitive_namespace at the same time
PassSpec == InitPasses /\ [][NextPasses]_vars

\* the positions of adapt_cognitive_namespace from the aggregation to the
\* unlock
PassPositions == {"ns_sum", "ns_adapt", "ns_compute", "ns_store", "ns_unlock"}

InPass(t) == pc[t] \in PassPositions

\* C29: a thread that is anywhere between the start of the load aggregation
\* and the end of the channel adaptations of adapt_cognitive_namespace holds
\* the adaptation_lock of its namespace, so two threads are never in the
\* pass of the same namespace at once.
AdaptSerialized ==
    /\ \A t \in Threads :
          InPass(t) => locks[AdaptationLock(loc[t].cns)] = t
    /\ \A t, u \in Threads :
          (t # u /\ InPass(t) /\ InPass(u)) => loc[t].cns # loc[u].cns

\* a thread is in the middle of the channel adaptations of a namespace while
\* the other one has called for the same namespace and waits for the lock
AdaptSerializedWitness ==
    \E t, u \in Threads :
       /\ t # u
       /\ pc[t] \in {"ns_compute", "ns_store"}
       /\ pc[u] = "ns_lock"
       /\ loc[u].cns = loc[t].cns

(***************************************************************************)
(* add_agent_to_swarm and cognitive_cities_init step by step.              *)
(***************************************************************************)
SwarmLock(s) == <<"swarm_lock", s>>

RegistryLock == <<"cognitive_state", 0>>

\* the threads that are inside a call of the function
Inside(name) == {t \in Threads : op[t] = name}

\* if (swarm == nil || agent == nil) return -1;
SwAddCall(t, s, agent) ==
    /\ pc[t] = "idle"
    /\ t \in callers
    /\ s \in 0..Len(swarms)
    /\ s # 0 => swarms[s].agent_count + Cardinality(Inside("add_agent"))
                   < MaxAgents
    /\ op' = [op EXCEPT ![t] = "add_agent"]
    /\ loc' = [loc EXCEPT ![t] = [swarm |-> s, agent |-> agent]]
    /\ IF s = 0 \/ agent = "nil"
       THEN Return(t, -1)
       ELSE Goto(t, "sw_lock") /\ rc' = rc
    /\ UNCHANGED <<namespaces, channels, swarms, aux, call, patterns, locks,
                   cognitive_state>>
    /\ UNCHANGED <<nc, queue_lock, now, next_tag, callers, pre, sendLog,
                   recvLog>>

\* lock(&swarm->swarm_lock);
SwLock(t) ==
    /\ pc[t] = "sw_lock"
    /\ CanAcquire(locks[SwarmLock(loc[t].swarm)])
    /\ locks' = [locks EXCEPT ![SwarmLock(loc[t].swarm)] = t]
    /\ Goto(t, "sw_append")
    /\ UNCHANGED <<namespaces, channels, swarms, aux, call, patterns,
                   cognitive_state>>
    /\ UNCHANGED <<nc, queue_lock, now, next_tag, callers, op, loc, rc, pre,
                   sendLog, recvLog>>

\* a mutant of UnlockedOnFailure: the failure path returns with the lock
KeptOnFailure(holder) == holder

\* the unlock(&swarm->swarm_lock) of the path on which realloc returned nil
UnlockedOnFailure(holder) == Released(holder)

\* new_agents = realloc(...); if (new_agents == nil) {
\* unlock(&swarm->swarm_lock); return -1; }
SwAllocFail(t) ==
    /\ pc[t] = "sw_append"
    /\ locks' = [locks EXCEPT
                    ![SwarmLock(loc[t].swarm)] = UnlockedOnFailure(@)]
    /\ Return(t, -1)
    /\ UNCHANGED <<namespaces, channels, swarms, aux, call, patterns,
                   cognitive_state>>
    /\ UNCHANGED <<nc, queue_lock, now, next_tag, callers, op, loc, pre,
                   sendLog, recvLog>>

\* swarm->agents[swarm->agent_count] = agent; swarm->agent_count++;
\* agent->aux = swarm;
SwAppend(t) ==
    /\ pc[t] = "sw_append"
    /\ swarms' = [swarms EXCEPT
                     ![loc[t].swarm].agents = Append(@, loc[t].agent),
                     ![loc[t].swarm].agent_count = @ + 1]
    /\ aux' = [aux EXCEPT ![loc[t].agent] = loc[t].swarm]
    /\ Goto(t, "sw_unlock")
    /\ UNCHANGED <<namespaces, channels, call, patterns, locks,
                   cognitive_state>>
    /\ UNCHANGED <<nc, queue_lock, now, next_tag, callers, op, loc, rc, pre,
                   sendLog, recvLog>>

\* unlock(&swarm->swarm_lock); return 0;
SwUnlock(t) ==
    /\ pc[t] = "sw_unlock"
    /\ locks' = [locks EXCEPT ![SwarmLock(loc[t].swarm)] = Released(@)]
    /\ Return(t, 0)
    /\ UNCHANGED <<namespaces, channels, swarms, aux, call, patterns,
                   cognitive_state>>
    /\ UNCHANGED <<nc, queue_lock, now, next_tag, callers, op, loc, pre,
                   sendLog, recvLog>>

SwStep(t) == SwLock(t) \/ SwAllocFail(t) \/ SwAppend(t) \/ SwUnlock(t)

\* the locals of cognitive_cities_init and of the functions it calls: the
\* namespaces and the channels created so far, and the binds made
InitLocals == [ns |-> <<>>, ch |-> <<>>, binds |-> 0]

\* the namespace and the channel of the k-th
\* bind_neural_channel_to_namespace call of create_interdomain_channels, as
\* positions in the locals
InitialBinds ==
    <<<<1, 1>>, <<1, 2>>, <<2, 1>>, <<2, 3>>,
      <<3, 2>>, <<3, 4>>, <<4, 3>>, <<4, 4>>>>

InitCall(t) ==
    /\ pc[t] = "idle"
    /\ t \in callers
    /\ Len(namespaces) + 4 * Cardinality(Inside("init"))
          < Len(StartupNamespaces) + 4 * MaxInits
    /\ op' = [op EXCEPT ![t] = "init"]
    /\ loc' = [loc EXCEPT ![t] = InitLocals]
    /\ Goto(t, "init_lock")
    /\ UNCHANGED <<namespaces, channels, swarms, aux, call, patterns, locks,
                   cognitive_state>>
    /\ UNCHANGED <<nc, queue_lock, now, next_tag, callers, rc, pre, sendLog,
                   recvLog>>

\* lock(&cognitive_state);
InitLock(t) ==
    /\ pc[t] = "init_lock"
    /\ CanAcquire(locks[RegistryLock])
    /\ locks' = [locks EXCEPT ![RegistryLock] = t]
    /\ Goto(t, "init_zero")
    /\ UNCHANGED <<namespaces, channels, swarms, aux, call, patterns,
                   cognitive_state>>
    /\ UNCHANGED <<nc, queue_lock, now, next_tag, callers, op, loc, rc, pre,
                   sendLog, recvLog>>

\* cognitive_state.namespaces = nil; ... cognitive_state.pattern_count = 0;
InitZero(t) ==
    /\ pc[t] = "init_zero"
    /\ cognitive_state' = ZeroedState
    /\ Goto(t, "init_unlock")
    /\ UNCHANGED <<namespaces, channels, swarms, aux, call, patterns, locks>>
    /\ UNCHANGED <<nc, queue_lock, now, next_tag, callers, op, loc, rc, pre,
                   sendLog, recvLog>>

\* unlock(&cognitive_state);
InitUnlock(t) ==
    /\ pc[t] = "init_unlock"
    /\ locks' = [locks EXCEPT ![RegistryLock] = Released(@)]
    /\ Goto(t, "init_create")
    /\ UNCHANGED <<namespaces, channels, swarms, aux, call, patterns,
                   cognitive_state>>
    /\ UNCHANGED <<nc, queue_lock, now, next_tag, callers, op, loc, rc, pre,
                   sendLog, recvLog>>

\* create_initial_cognitive_domains: the next create_cognitive_namespace up
\* to its lock(): cns = malloc(...); cns->domain = ...; cns->channel_count = 0
InitCreate(t) ==
    /\ pc[t] = "init_create"
    /\ LET k == Len(loc[t].ns) + 1
           domain == StartupNamespaces[k].domain
       IN  /\ namespaces' = Append(namespaces,
                                   NewNamespace(domain, DomainPath(domain),
                                                now))
           /\ loc' = [loc EXCEPT ![t].ns = Append(@, Len(namespaces) + 1)]
    /\ Goto(t, "init_ns_lock")
    /\ UNCHANGED <<channels, swarms, aux, call, patterns, locks,
                   cognitive_state>>
    /\ UNCHANGED <<nc, queue_lock, now, next_tag, callers, op, rc, pre,
                   sendLog, recvLog>>

\* the namespace create_cognitive_namespace has just allocated
InitNamespace(t) == loc[t].ns[Len(loc[t].ns)]

\* lock(&cns->adaptation_lock);
InitNsLock(t) ==
    /\ pc[t] = "init_ns_lock"
    /\ CanAcquire(locks[AdaptationLock(InitNamespace(t))])
    /\ locks' = [locks EXCEPT ![AdaptationLock(InitNamespace(t))] = t]
    /\ Goto(t, "init_ns_unlock")
    /\ UNCHANGED <<namespaces, channels, swarms, aux, call, patterns,
                   cognitive_state>>
    /\ UNCHANGED <<nc, queue_lock, now, next_tag, callers, op, loc, rc, pre,
                   sendLog, recvLog>>

\* unlock(&cns->adaptation_lock); return cns;  after the fourth namespace
\* create_interdomain_channels is called
InitNsUnlock(t) ==
    /\ pc[t] = "init_ns_unlock"
    /\ locks' = [locks EXCEPT
                    ![AdaptationLock(InitNamespace(t))] = Released(@)]
    /\ IF Len(loc[t].ns) < Len(StartupNamespaces)
       THEN Goto(t, "init_create")
       ELSE Goto(t, "init_channel")
    /\ UNCHANGED <<namespaces, channels, swarms, aux, call, patterns,
                   cognitive_state>>
    /\ UNCHANGED <<nc, queue_lock, now, next_tag, callers, op, loc, rc, pre,
                   sendLog, recvLog>>

\* create_interdomain_channels: the next create_neural_channel up to its
\* lock(): nc = malloc(...); nc->channel_id = ...; nc->message_queue = nil
InitChannel(t) ==
    /\ pc[t] = "init_channel"
    /\ LET k == Len(loc[t].ch) + 1
           channel == StartupChannels[k]
       IN  /\ channels' = Append(channels,
                                 CityChannel(
                                     NewChannel(channel.source_domain,
                                                channel.target_domain,
                                                channel.bandwidth_capacity,
                                                now)))
           /\ loc' = [loc EXCEPT ![t].ch = Append(@, Len(channels) + 1)]
    /\ Goto(t, "init_ch_lock")
    /\ UNCHANGED <<namespaces, swarms, aux, call, patterns, locks,
                   cognitive_state>>
    /\ UNCHANGED <<nc, queue_lock, now, next_tag, callers, op, rc, pre,
                   sendLog, recvLog>>

\* the queue_lock of a channel of the namespace layer
ChannelLock(c) == <<"queue_lock", c>>

\* the channel create_neural_channel has just allocated
InitNewChannel(t) == loc[t].ch[Len(loc[t].ch)]

\* lock(&nc->queue_lock);
InitChLock(t) ==
    /\ pc[t] = "init_ch_lock"
    /\ CanAcquire(locks[ChannelLock(InitNewChannel(t))])
    /\ locks' = [locks EXCEPT ![ChannelLock(InitNewChannel(t))] = t]
    /\ Goto(t, "init_ch_unlock")
    /\ UNCHANGED <<namespaces, channels, swarms, aux, call, patterns,
                   cognitive_state>>
    /\ UNCHANGED <<nc, queue_lock, now, next_tag, callers, op, loc, rc, pre,
                   sendLog, recvLog>>

\* unlock(&nc->queue_lock); return nc;  after the fourth channel the binds
\* begin
InitChUnlock(t) ==
    /\ pc[t] = "init_ch_unlock"
    /\ locks' = [locks EXCEPT
                    ![ChannelLock(InitNewChannel(t))] = Released(@)]
    /\ IF Len(loc[t].ch) < Len(StartupChannels)
       THEN Goto(t, "init_channel")
       ELSE Goto(t, "init_bind")
    /\ UNCHANGED <<namespaces, channels, swarms, aux, call, patterns,
                   cognitive_state>>
    /\ UNCHANGED <<nc, queue_lock, now, next_tag, callers, op, loc, rc, pre,
                   sendLog, recvLog>>

\* the next bind_neural_channel_to_namespace(namespace, channel), and after
\* the eighth the return of cognitive_cities_init
InitBind(t) ==
    /\ pc[t] = "init_bind"
    /\ IF loc[t].binds < Len(InitialBinds)
       THEN LET bind == InitialBinds[loc[t].binds + 1]
                n == loc[t].ns[bind[1]]
                c == loc[t].ch[bind[2]]
            IN  /\ namespaces' = [namespaces EXCEPT ![n] = Bound(@, c)]
                /\ loc' = [loc EXCEPT ![t].binds = @ + 1]
                /\ UNCHANGED <<pc, rc>>
       ELSE /\ Return(t, 0)
            /\ UNCHANGED <<namespaces, loc>>
    /\ UNCHANGED <<channels, swarms, aux, call, patterns, locks,
                   cognitive_state>>
    /\ UNCHANGED <<nc, queue_lock, now, next_tag, callers, op, pre,
                   sendLog, recvLog>>

InitStep(t) ==
    \/ InitLock(t) \/ InitZero(t) \/ InitUnlock(t)
    \/ InitCreate(t) \/ InitNsLock(t) \/ InitNsUnlock(t)
    \/ InitChannel(t) \/ InitChLock(t) \/ InitChUnlock(t)
    \/ InitBind(t)

(***************************************************************************)
(* All the functions that take a lock, called by two threads at once.      *)
(***************************************************************************)
\* the messages sent while the other calls go on
LockSends == 1

\* the namespace passed to adapt_cognitive_namespace: transportation
LockNamespaces == {1}

\* the process passed to add_agent_to_swarm
LockAgents == {"p1"}

\* after start-up and some traffic: a channel nc of capacity 10 the threads
\* send on, the four namespaces and channels, and a swarm
InitLocks ==
    /\ InitCommon
    /\ nc = NewChannel("transportation", "energy", 10, 1)
    /\ callers = Threads
    /\ namespaces = StartupNamespaces
    /\ channels = Append([i \in DOMAIN StartupChannels |->
                             Loaded(StartupChannels[i],
                                    <<450, 50, 350, 190>>[i])],
                         CoordinationChannel("transportation", 1))
    /\ swarms = <<NewSwarm("traffic-swarm", "transportation",
                           Len(StartupChannels) + 1, 1)>>
    /\ aux = [a \in Agents |-> 0]
    /\ call = NoCall
    /\ patterns = <<>>
    /\ locks = [l \in LockIds |-> "free"]
    /\ cognitive_state = ZeroedState

\* the steps that return from lock()
Acquire(t) ==
    \/ QueueLock(t) \/ RecvLock(t) \/ NsLock(t) \/ SwLock(t) \/ InitLock(t)
    \/ InitNsLock(t) \/ InitChLock(t)

\* the other steps inside a call, and the return to the caller
Proceed(t) ==
    \/ SendReadLoad(t) \/ SendCheck(t) \/ SendLoadRead(t) \/ SendLoadWrite(t)
    \/ QueueAppend(t) \/ QueueUnlock(t)
    \/ RecvPop(t) \/ RecvLoadWrite(t) \/ RecvUnlock(t)
    \/ NsSum(t) \/ NsAdapt(t) \/ NsCompute(t) \/ NsStore(t) \/ NsUnlock(t)
    \/ SwAllocFail(t) \/ SwAppend(t) \/ SwUnlock(t)
    \/ InitZero(t) \/ InitUnlock(t)
    \/ InitCreate(t) \/ InitNsUnlock(t)
    \/ InitChannel(t) \/ InitChUnlock(t) \/ InitBind(t)
    \/ Finish(t)

\* a thread begins a call
BeginCall(t) ==
    \/ SendCall(t, LockSends, {1})
    \/ RecvCall(t)
    \/ \E n \in LockNamespaces : NsAdaptCall(t, n)
    \/ \E agent \in LockAgents : SwAddCall(t, 1, agent)
    \/ InitCall(t)

NextLocks == \E t \in Threads : BeginCall(t) \/ Acquire(t) \/ Proceed(t)

LockSpec == InitLocks /\ [][NextLocks]_vars

\* a thread inside a call goes on running, and a thread spinning in lock()
\* takes the lock if the lock stays free; lock() keeps no order among the
\* threads that spin, so a lock that is free again and again may go to
\* another thread every time
LockFairSpec ==
    /\ LockSpec
    /\ \A t \in Threads : WF_vars(Proceed(t)) /\ WF_vars(Acquire(t))

\* the position of a thread that is in lock()
WaitPositions ==
    {"queue_lock", "recv_lock", "ns_lock", "sw_lock", "init_lock",
     "init_ns_lock", "init_ch_lock"}

Waiting(t) == pc[t] \in WaitPositions

\* the lock a waiting thread waits for is held by whom
HolderAwaited(t) ==
    IF pc[t] \in {"queue_lock", "recv_lock"} THEN queue_lock
    ELSE IF pc[t] = "ns_lock" THEN locks[AdaptationLock(loc[t].cns)]
    ELSE IF pc[t] = "sw_lock" THEN locks[SwarmLock(loc[t].swarm)]
    ELSE IF pc[t] = "init_ns_lock"
    THEN locks[AdaptationLock(InitNamespace(t))]
    ELSE IF pc[t] = "init_ch_lock" THEN locks[ChannelLock(InitNewChannel(t))]
    ELSE locks[RegistryLock]

\* the step gives the thread the queue_lock of the channel
TakesChannelLock(t) ==
    \/ queue_lock # t /\ queue_lock' = t
    \/ \E l \in LockIds : l[1] = "queue_lock" /\ locks[l] # t /\ locks'[l] = t

\* the step gives the thread the lock of a kind: "swarm_lock",
\* "adaptation_lock"
TakesLock(t, kind) ==
    \E l \in LockIds : l[1] = kind /\ locks[l] # t /\ locks'[l] = t

\* the thread holds the queue_lock of a channel
HoldsChannelLock(t) ==
    \/ queue_lock = t
    \/ \E l \in LockIds : l[1] = "queue_lock" /\ locks[l] = t

\* no step takes a queue_lock or a swarm_lock for a thread that holds the
\* lock of cognitive_state, nor an adaptation_lock for a thread that holds a
\* queue_lock
LockOrder ==
    [][\A t \in Threads :
          /\ (TakesChannelLock(t) \/ TakesLock(t, "swarm_lock"))
             => locks[RegistryLock] # t
          /\ TakesLock(t, "adaptation_lock") => ~HoldsChannelLock(t)]_vars

\* a thread in lock() gets out of it
NoWaitForever == \A t \in Threads : Waiting(t) ~> ~Waiting(t)

\* the claim as stated: the ordering rules hold and whenever threads send,
\* receive, adapt a namespace, add an agent and initialise at the same time,
\* a thread that waits for a lock gets it
LockOrderAndProgress == LockOrder /\ NoWaitForever

\* the locks thread t holds
HeldBy(t) ==
    {l \in LockIds : locks[l] = t}
        \cup (IF queue_lock = t THEN {<<"queue_lock", 0>>} ELSE {})

\* a thread in lock() holds no lock, so no thread waits for a thread that
\* waits
NoHoldAndWait == [](\A t \in Threads : Waiting(t) => HeldBy(t) = {})

\* the lock a thread waits for is released: the thread gets out of lock() or
\* finds the lock free
AwaitedLockFreed ==
    \A t \in Threads :
       Waiting(t) ~> (~Waiting(t) \/ HolderAwaited(t) = "free")

\* C30: no thread takes the lock of a channel or of a swarm while it holds
\* the lock of cognitive_state, and none takes the adaptation_lock of a
\* namespace while it holds the lock of a channel; whenever threads send,
\* receive, adapt a namespace, add an agent and initialise at the same time,
\* no thread waits for a lock while it holds one, and every lock a thread
\* waits for becomes free or is given to it.
LockOrderAndNoDeadlock == LockOrder /\ NoHoldAndWait /\ AwaitedLockFreed

\* a thread waits for a lock that the other thread holds
LockContention ==
    \E t, u \in Threads :
       t # u /\ Waiting(t) /\ HolderAwaited(t) = u

(***************************************************************************)
(* Locking.                                                                *)
(***************************************************************************)
\* the positions whose step reads or writes nc->message_queue
QueueAccess == {"queue_append", "recv_pop"}

\* the positions whose step reads or writes nc->current_load
LoadAccess ==
    {"send_load", "send_load_read", "send_load_write", "adapt_load",
     "recv_pop", "recv_load_write"}

\* the positions whose step reads or writes nc->bandwidth_capacity
CapacityAccess ==
    {"send_check", "adapt_ratio", "adapt_compute", "adapt_store"}

\* the message_queue is read and written under the queue_lock only, and so
\* is the current_load in receive_neural_message
QueueAccessLocked ==
    \A t \in Threads :
       (pc[t] \in QueueAccess \/ pc[t] = "recv_load_write")
       => queue_lock = t

\* C28: a thread that is about to read or write the message_queue, the
\* current_load or the bandwidth_capacity of the channel in
\* send_neural_message, receive_neural_message or
\* adapt_neural_channel_capacity holds the queue_lock of the channel.
ChannelLockDiscipline ==
    \A t \in Threads :
       pc[t] \in QueueAccess \cup LoadAccess \cup CapacityAccess
       => queue_lock = t

(***************************************************************************)
(* The control file of src/port/devcognitive.c: cognitivewrite on Qctl.    *)
(* A write is the list of its tokens; what the write does is the error it  *)
(* raises, or the line it prints.                                          *)
(***************************************************************************)
\* the longest write, in tokens
MaxFields == 3

CtlCommands ==
    {"create-namespace", "bind-channel", "start-swarm", "detect-emergence",
     "adapt-namespace"}

\* the first tokens written: the commands, and a command of cogctl that the
\* control file does not have
CtlFirst == CtlCommands \cup {"stats"}

\* the arguments written
CtlArgs == {"transportation", "energy", "auto"}

\* the writes: nothing, or a first token and up to MaxFields - 1 arguments
CtlWrites ==
    {<<>>} \cup
    {<<first>> \o arguments :
        first \in CtlFirst,
        arguments \in UNION {[1..n -> CtlArgs] : n \in 0..(MaxFields - 1)}}

\* a mutant of RequiredFields: no command needs an argument
RequiredFieldsNone(command) == 1

\* the nf below which a command raises its usage error
RequiredFields(command) ==
    CASE command = "create-namespace" -> 3
      [] command = "bind-channel" -> 3
      [] command = "start-swarm" -> 3
      [] command = "detect-emergence" -> 1
      [] command = "adapt-namespace" -> 2

\* cognitivewrite, case Qctl: error() leaves the function at once
Cognitivewrite(fields) ==
    LET nf == Len(fields) IN
    IF nf < 1 THEN [error |-> "Ebadarg", printed |-> "none"]
    ELSE IF fields[1] \notin CtlCommands
    THEN [error |-> "unknown command", printed |-> "none"]
    ELSE IF nf < RequiredFields(fields[1])
    THEN [error |-> "usage", printed |-> "none"]
    ELSE [error |-> "none", printed |-> fields[1]]

\* a write to the control file; no function of cognitive.c is called
CtlWrite(fields) ==
    /\ call' = Called("write", 0, 0, fields, Cognitivewrite(fields))
    /\ UNCHANGED <<namespaces, channels, swarms, aux, patterns, locks,
                   cognitive_state, threadVars, now>>

NextCtl == \E fields \in CtlWrites : CtlWrite(fields)

\* writes to the control file after start-up
CtlSpec == InitDomains /\ [][NextCtl]_vars

\* the last call was a write of at least one token
Written == call.name = "write" /\ Len(call.arg) >= 1

\* C31: a write whose first token is none of the five commands fails with
\* "unknown command"; create-namespace, bind-channel and start-swarm with
\* fewer than two arguments and adapt-namespace without an argument fail with
\* a usage error; detect-emergence is accepted without arguments; a write
\* that fails does nothing.
CommandDispatch ==
    Written =>
        LET command == call.arg[1]
            arguments == Len(call.arg) - 1
            result == call.status
        IN  /\ command \notin CtlCommands
               => result.error = "unknown command"
            /\ (command \in {"create-namespace", "bind-channel",
                             "start-swarm"} /\ arguments < 2)
               => result.error = "usage"
            /\ (command = "adapt-namespace" /\ arguments < 1)
               => result.error = "usage"
            /\ command = "detect-emergence" => result.error = "none"
            /\ result.error # "none"
               => /\ result.printed = "none"
                  /\ namespaces = call.before.namespaces
                  /\ channels = call.before.channels
                  /\ swarms = call.before.swarms
                  /\ patterns = call.before.patterns

\* an adapt-namespace without its argument was written and refused
CommandDispatchWitness ==
    /\ Written
    /\ call.arg = <<"adapt-namespace">>
    /\ call.status.error = "usage"

(***************************************************************************)
(* Concurrent adaptation of a loaded channel.                              *)
(***************************************************************************)
\* the sends one caller made before the others arrive
RaceSends == 10

\* the channel and the results after one caller made n sends of priority 1
\* at time t, one after the other: send_neural_message as one caller runs it
RECURSIVE AfterSends(_, _, _)
AfterSends(channel, n, t) ==
    IF n = 0 THEN [nc |-> channel, log |-> <<>>]
    ELSE
        LET before == AfterSends(channel, n - 1, t)
            c == before.nc
            full == SendMustAdapt(c.current_load, c.bandwidth_capacity)
            high == LoadRatioHigh(c.current_load, c.bandwidth_capacity)
            routed == ~full \/ high
            adapted ==
                IF full /\ high
                THEN [c EXCEPT !.bandwidth_capacity =
                                   NewCapacity(@, c.adaptation_rate),
                               !.last_evolution = t]
                ELSE c
            m == [tag |-> n, cognitive_priority |-> 1,
                  timestamp |-> IF routed THEN t ELSE 0]
        IN  [nc |-> [adapted EXCEPT
                        !.current_load =
                            IF routed THEN LoadAfterSend(@) ELSE @,
                        !.message_queue = Enqueue(@, m)],
             log |-> Append(before.log,
                            [tag |-> n, status |-> OrdinarySuccess,
                             path |-> IF routed THEN "routed"
                                      ELSE "overcap",
                             stamp |-> 0])]

\* concurrent callers of a channel of capacity 10 that one caller has filled
InitRace ==
    LET sent == AfterSends(NewChannel("transportation", "energy", 10, 1),
                           RaceSends, 1)
    IN  /\ queue_lock = "free"
        /\ now = 1
        /\ next_tag = RaceSends
        /\ pc = [t \in Threads |-> "idle"]
        /\ op = [t \in Threads |-> "none"]
        /\ loc = [t \in Threads |-> NoLocals]
        /\ rc = [t \in Threads |-> 0]
        /\ pre = [t \in Threads |-> NoChannel]
        /\ sendLog = sent.log
        /\ recvLog = <<>>
        /\ InitNoCity
        /\ nc = sent.nc
        /\ callers = Threads

\* concurrent sends and concurrent direct adaptations, as
\* adapt_cognitive_namespace makes them for the two namespaces of a channel
NextRace ==
    \E t \in Threads :
        \/ SendCall(t, RaceSends + ConcSends, {1})
        \/ SendStep(t)
        \/ AdaptCall(t)

RaceSpec == InitRace /\ [][NextRace]_vars

\* C32: under any interleaving of concurrent adapt_neural_channel_capacity
\* executions on one channel (called by concurrent sends, by the adaptation
\* passes of the two namespaces of the channel, or both) no step lowers
\* bandwidth_capacity.
CapacityMonotoneConcurrent ==
    [][nc'.bandwidth_capacity >= nc.bandwidth_capacity]_vars

(***************************************************************************)
(* A routed send and the capacity.                                         *)
(***************************************************************************)
\* C33: with one caller, a send that found current_load >= bandwidth_capacity
\* on a channel of capacity >= 1 and went on to count and route the message
\* leaves bandwidth_capacity above the load it found, and after every send
\* that counted and routed its message current_load <= bandwidth_capacity.
RoutedSendFits ==
    (/\ Returning(T1, "send")
     /\ loc[T1].path = "routed"
     /\ rc[T1] = OrdinarySuccess
     /\ pre[T1].bandwidth_capacity >= 1) =>
        /\ SendMustAdapt(pre[T1].current_load, pre[T1].bandwidth_capacity)
              => nc.bandwidth_capacity > pre[T1].current_load
        /\ nc.current_load <= nc.bandwidth_capacity

(***************************************************************************)
(* The timestamp of a message.                                             *)
(***************************************************************************)
StampSends == 2

\* msg->timestamp as the caller passes it: 0 is unset, 1 was set at time 1
Stamps == {0, 1}

\* cognitive_priority of the messages sent
StampPriority == 1

\* a send of a message whose timestamp the caller may have set
SendStamped(t, limit) ==
    /\ next_tag < limit
    /\ \E stamp \in Stamps :
          Enter(t, "send", "send_load",
                [tag |-> next_tag + 1, cognitive_priority |-> StampPriority,
                 timestamp |-> stamp])
    /\ next_tag' = next_tag + 1
    /\ UNCHANGED cityVars
    /\ UNCHANGED <<nc, queue_lock, now, callers, sendLog, recvLog>>

NextStamp ==
    \/ CreateChannel
    \/ Tick
    \/ \E t \in Threads :
          SendStamped(t, StampSends) \/ NilChannel(t) \/ Step(t)

StampSpec == InitSeq /\ [][NextStamp]_vars

\* the timestamp of the message of a tag as its sender passed it
Passed(tag) ==
    (CHOOSE i \in DOMAIN sendLog : sendLog[i].tag = tag).stamp

\* the message kept the timestamp it was passed with, or got one if it had
\* none
Stamped(m, passed) ==
    /\ m.timestamp # 0
    /\ passed # 0 => m.timestamp = passed

\* C34: a send that returns success leaves a timestamp the caller had set as
\* it was and sets one only when there was none, and leaves the other fields
\* of the message as they were passed; every message receive returns has its
\* timestamp set, whichever path its send took, and its other fields are as
\* they were passed to send.
TimestampStamping ==
    /\ (Returning(T1, "send") /\ rc[T1] = OrdinarySuccess
           /\ loc[T1].path = "routed")
          => /\ Stamped(loc[T1].msg, loc[T1].arg.timestamp)
             /\ loc[T1].msg.tag = loc[T1].arg.tag
             /\ loc[T1].msg.cognitive_priority
                   = loc[T1].arg.cognitive_priority
    /\ \A j \in DOMAIN recvLog :
          /\ Stamped(recvLog[j], Passed(recvLog[j].tag))
          /\ recvLog[j].cognitive_priority = StampPriority

(***************************************************************************)
(* Repeated adaptation passes.                                             *)
(***************************************************************************)
\* bandwidth of a channel a caller created and filled after start-up
FilledBandwidths == {5, 10}

\* after start-up and some traffic, a caller created one more channel at
\* time 2 and filled it
InitConverge ==
    /\ InitCity
    /\ now = 2
    /\ swarms = <<>>
    /\ \E loads \in StartupLoads, bandwidth \in FilledBandwidths :
          channels =
              Append([i \in DOMAIN StartupChannels |->
                         Loaded(StartupChannels[i], loads[i])],
                     Loaded(CityChannel(NewChannel("transportation", "energy",
                                                   bandwidth, 2)),
                            bandwidth))

\* the caller binds the channel to the transportation namespace; adaptation
\* passes, and no send or receive
NextConverge ==
    \/ BindChannel(1, Len(StartupChannels) + 1)
    \/ \E n \in 0..Len(StartupNamespaces) : AdaptNamespace(n)

ConvergeSpec == InitConverge /\ [][NextConverge]_vars

\* the adaptation pass just made changed no capacity
PassChangedNoCapacity ==
    /\ call.name = "adapt_namespace"
    /\ call.ref >= 1
    /\ \A c \in DOMAIN channels :
          channels[c].bandwidth_capacity
              = call.before.channels[c].bandwidth_capacity

\* C35: without sends and receives, repeated adapt_cognitive_namespace calls
\* on a namespace whose channels have capacity >= 1 end in passes that change
\* no capacity, and once a pass changes no capacity no channel of the
\* namespace is left with a load ratio above 0.8 while the average load is
\* above 100.
AdaptConverges ==
    PassChangedNoCapacity =>
        LET cns == namespaces[call.ref]
            refs == SubSeq(cns.channels, 1, cns.channel_count)
        IN  ~(/\ HighCognitiveLoad(TotalLoad(refs, channels),
                                   cns.channel_count)
              /\ \E k \in DOMAIN refs :
                    /\ channels[refs[k]].bandwidth_capacity >= 1
                    /\ RatioAbove(channels[refs[k]]))

(***************************************************************************)
(* The load counter.                                                       *)
(***************************************************************************)
\* C36: whatever channel was created (capacity 0 included) and whatever
\* sends and receives were made, current_load-- runs only on a load above
\* 0: the unsigned current_load never wraps around below zero.
NoLoadUnderflow ==
    /\ nc.created => nc.current_load >= 0
    /\ \A t \in Threads :
          pc[t] = "recv_load_write" => loc[t].load > 0

(***************************************************************************)
(* Locks at the return of a call.                                          *)
(***************************************************************************)
\* C37: a thread whose call has returned, or that is in no call, holds no
\* lock: receive_neural_message (also on an empty queue),
\* queue_neural_message, adapt_cognitive_namespace, add_agent_to_swarm (also
\* when realloc fails) and cognitive_cities_init release the lock they took
\* on every return path.
LocksReleased ==
    \A t \in Threads : pc[t] \in {"idle", "ret"} => HeldBy(t) = {}

\* add_agent_to_swarm has returned -1 because realloc failed, while the other
\* thread holds a lock
LocksReleasedWitness ==
    \E t \in Threads :
        /\ pc[t] = "ret"
        /\ op[t] = "add_agent"
        /\ rc[t] = -1
        /\ loc[t].swarm # 0
        /\ loc[t].agent # "nil"
        /\ \E u \in Threads \ {t} : HeldBy(u) # {}

(***************************************************************************)
(* Concurrent add_agent_to_swarm calls on one swarm, statement by          *)
(* statement.                                                              *)
(***************************************************************************)
\* the array realloc returns for `size` entries: the old entries that fit,
\* and entries not yet written
Realloc(agents, size) ==
    [k \in 1..size |-> IF k <= Len(agents) THEN agents[k] ELSE "unset"]

\* new_agents = realloc(swarm->agents,
\*                      sizeof(Proc*) * (swarm->agent_count + 1));
\* swarm->agents = new_agents;
SwRealloc(t) ==
    /\ pc[t] = "sw_append"
    /\ swarms' = [swarms EXCEPT
                     ![loc[t].swarm].agents =
                         Realloc(@, swarms[loc[t].swarm].agent_count + 1)]
    /\ Goto(t, "sw_store")
    /\ UNCHANGED <<namespaces, channels, aux, call, patterns, locks,
                   cognitive_state>>
    /\ UNCHANGED <<nc, queue_lock, now, next_tag, callers, op, loc, rc, pre,
                   sendLog, recvLog>>

\* swarm->agents[swarm->agent_count] = agent;   (a store past the end of the
\* array, which no thread holding the lock makes, is left out)
SwStore(t) ==
    /\ pc[t] = "sw_store"
    /\ LET swarm == swarms[loc[t].swarm] IN
       swarms' = [swarms EXCEPT
                     ![loc[t].swarm].agents =
                         IF swarm.agent_count < Len(swarm.agents)
                         THEN [@ EXCEPT ![swarm.agent_count + 1] =
                                            loc[t].agent]
                         ELSE @]
    /\ Goto(t, "sw_count")
    /\ UNCHANGED <<namespaces, channels, aux, call, patterns, locks,
                   cognitive_state>>
    /\ UNCHANGED <<nc, queue_lock, now, next_tag, callers, op, loc, rc, pre,
                   sendLog, recvLog>>

\* swarm->agent_count++; agent->aux = swarm;
SwCount(t) ==
    /\ pc[t] = "sw_count"
    /\ swarms' = [swarms EXCEPT ![loc[t].swarm].agent_count = @ + 1]
    /\ aux' = [aux EXCEPT ![loc[t].agent] = loc[t].swarm]
    /\ Goto(t, "sw_unlock")
    /\ UNCHANGED <<namespaces, channels, call, patterns, locks,
                   cognitive_state>>
    /\ UNCHANGED <<nc, queue_lock, now, next_tag, callers, op, loc, rc, pre,
                   sendLog, recvLog>>

\* the arguments of the concurrent calls: no swarm or the first swarm, no
\* agent or one of the agents
MemberSwarms == {0, 1}
MemberAgents == Agents \cup {"nil"}

\* each thread makes one add_agent_to_swarm call and keeps its result
NextMembers ==
    \E t \in Threads :
        \/ \E s \in MemberSwarms, agent \in MemberAgents :
              SwAddCall(t, s, agent)
        \/ SwLock(t) \/ SwAllocFail(t) \/ SwRealloc(t) \/ SwStore(t)
        \/ SwCount(t) \/ SwUnlock(t)

MemberSpec == InitLocks /\ [][NextMembers]_vars

\* the threads whose add_agent_to_swarm on swarm s returned 0
Added(s) ==
    {t \in Threads : /\ pc[t] = "ret"
                     /\ op[t] = "add_agent"
                     /\ rc[t] = 0
                     /\ loc[t].swarm = s}

\* C38: when the concurrent add_agent_to_swarm calls on one swarm have all
\* returned, agent_count is the number of calls that returned 0 and every
\* agent is in the array as often as a call that returned 0 added it.
MembersNotLost ==
    (\A t \in Threads : pc[t] = "ret") =>
        LET swarm == swarms[1] IN
        /\ swarm.agent_count = Cardinality(Added(1))
        /\ Len(swarm.agents) = swarm.agent_count
        /\ \A a \in Agents :
              Cardinality({k \in DOMAIN swarm.agents : swarm.agents[k] = a})
                  = Cardinality({t \in Added(1) : loc[t].agent = a})

\* two concurrent calls added different agents and both returned 0
MembersNotLostWitness ==
    /\ Added(1) = Threads
    /\ loc[T1].agent # loc[T2].agent
    /\ swarms[1].agent_count = 2

(***************************************************************************)
(* Concurrent producers and consumers of one channel.                      *)
(***************************************************************************)
\* the sends of both producers together: a pair of one producer and a message
\* of the other
OrderSends == 3

\* each producer marks its messages with a cognitive_priority of its own, so
\* that a message tells which thread sent it
ProducerPriority(t) == IF t = T1 THEN 1 ELSE 2

\* either thread sends and receives
NextOrder ==
    \E t \in Threads :
        \/ SendCall(t, OrderSends, {ProducerPriority(t)})
        \/ SendStep(t)
        \/ RecvCall(t) \/ RecvLock(t) \/ RecvPop(t) \/ RecvLoadWrite(t)
        \/ RecvUnlock(t)

OrderSpec == Init /\ [][NextOrder]_vars

\* the messages receive_neural_message has taken off the queue
Dequeued ==
    {recvLog[j] : j \in DOMAIN recvLog}
        \cup {loc[t].msg : t \in {u \in Threads :
                                    /\ op[u] = "receive"
                                    /\ pc[u] \in {"recv_load_write",
                                                  "recv_unlock", "ret"}
                                    /\ loc[u].msg # NoMessage}}

\* m was sent by the thread that sent n, in an earlier call
SentBefore(m, n) ==
    m.cognitive_priority = n.cognitive_priority /\ m.tag < n.tag

\* C39: with concurrent senders and receivers on one channel, two messages
\* of one sender, the second sent after the send of the first returned, are
\* taken off the queue in the order they were sent: the earlier one is ahead
\* in the queue, and it is not queued any more once the later one has been
\* taken off; no message is in the queue twice, so that the list ends.
ProducerOrder ==
    LET queue == nc.message_queue IN
    /\ \A i, j \in DOMAIN queue :
          i < j => /\ queue[i].tag # queue[j].tag
                   /\ ~SentBefore(queue[j], queue[i])
    /\ \A d \in Dequeued :
          \A i \in DOMAIN queue : ~SentBefore(queue[i], d)

\* both threads have sent: thread t2 has taken the first message of t1 off
\* the queue while its own message, sent between the two sends of t1, and
\* the second message of t1 are queued behind it, and t1 is in a send or a
\* receive of its own
ProducerOrderWitness ==
    /\ op[T2] = "receive"
    /\ pc[T2] = "recv_unlock"
    /\ loc[T2].msg.cognitive_priority = ProducerPriority(T1)
    /\ pc[T1] \notin {"idle", "ret"}
    /\ \E i, j \in DOMAIN nc.message_queue :
          /\ i < j
          /\ nc.message_queue[i].cognitive_priority = ProducerPriority(T2)
          /\ loc[T2].msg.tag < nc.message_queue[i].tag
          /\ SentBefore(loc[T2].msg, nc.message_queue[j])

(***************************************************************************)
(* What adaptation and receive leave alone.                                *)
(***************************************************************************)
FrameSends == 1

\* one caller; a channel of capacity 10 that ten sends have filled, next to
\* the start-up namespaces and their loaded channels
InitFrame ==
    LET sent == AfterSends(NewChannel("transportation", "energy", 10, 1),
                           RaceSends, 1)
    IN  /\ queue_lock = "free"
        /\ now = 1
        /\ next_tag = RaceSends
        /\ pc = [t \in Threads |-> "idle"]
        /\ op = [t \in Threads |-> "none"]
        /\ loc = [t \in Threads |-> NoLocals]
        /\ rc = [t \in Threads |-> 0]
        /\ pre = [t \in Threads |-> NoChannel]
        /\ sendLog = sent.log
        /\ recvLog = <<>>
        /\ nc = sent.nc
        /\ callers = {T1}
        /\ namespaces = StartupNamespaces
        /\ \E loads \in StartupLoads :
              channels = [i \in DOMAIN StartupChannels |->
                             Loaded(StartupChannels[i], loads[i])]
        /\ swarms = <<>>
        /\ aux = [a \in Agents |-> 0]
        /\ call = NoCall
        /\ patterns = <<>>
        /\ locks = [l \in LockIds |-> "free"]
        /\ cognitive_state = ZeroedState

\* the caller sends, receives, adapts the channel and adapts namespaces
NextFrame ==
    \E t \in Threads :
        \/ SendCall(t, RaceSends + FrameSends, {1})
        \/ Step(t)
        \/ \E n \in PassNamespaces : NsAdaptCall(t, n)
        \/ NsStep(t)

FrameSpec == InitFrame /\ [][NextFrame]_vars

AdaptPositions == {"adapt_load", "adapt_ratio", "adapt_compute", "adapt_store"}
ReceivePositions == {"recv_lock", "recv_pop", "recv_load_write", "recv_unlock"}
NamespacePositions == PassPositions \cup {"ns_lock"}

\* thread t, at one of the positions, takes the step
Acts(t, positions) ==
    /\ pc[t] \in positions
    /\ pc'[t] # pc[t] \/ loc'[t] # loc[t]

\* the channels whose fields the step changes
ChangedChannels == {c \in DOMAIN channels : channels'[c] # channels[c]}

\* the namespaces the step changes in a field other than cognitive_load and
\* last_adaptation
DisturbedNamespaces ==
    {n \in DOMAIN namespaces :
        [namespaces'[n] EXCEPT !.cognitive_load = 0, !.last_adaptation = 0]
            # [namespaces[n] EXCEPT !.cognitive_load = 0,
                                    !.last_adaptation = 0]}

\* C40: no step of adapt_neural_channel_capacity and no step of
\* adapt_cognitive_namespace changes the message_queue or the current_load of
\* a channel (they change bandwidth_capacity, last_evolution, cognitive_load
\* and last_adaptation only); no step of receive_neural_message changes
\* bandwidth_capacity or last_evolution; and adapt_cognitive_namespace on a
\* namespace changes no channel that the namespace does not reference.
AdaptationFrame ==
    [][\A t \in Threads :
          /\ Acts(t, AdaptPositions) =>
                /\ nc'.message_queue = nc.message_queue
                /\ nc'.current_load = nc.current_load
                /\ channels' = channels
                /\ namespaces' = namespaces
          /\ Acts(t, NamespacePositions) =>
                /\ nc' = nc
                /\ \A c \in DOMAIN channels :
                      channels'[c].current_load = channels[c].current_load
                /\ ChangedChannels \subseteq ChannelSet(namespaces[loc[t].cns])
                /\ DisturbedNamespaces = {}
                /\ \A n \in DOMAIN namespaces :
                      namespaces'[n] # namespaces[n] => n = loc[t].cns
          /\ Acts(t, ReceivePositions) =>
                /\ nc'.bandwidth_capacity = nc.bandwidth_capacity
                /\ nc'.last_evolution = nc.last_evolution
                /\ channels' = channels]_vars

\* adaptation has raised the capacity of the filled channel and a pass of
\* the energy namespace has raised the capacities of its two channels, while
\* messages were received and others are still queued
AdaptationFrameWitness ==
    /\ nc.bandwidth_capacity > 10
    /\ nc.message_queue # <<>>
    /\ recvLog # <<>>
    /\ channels[1].bandwidth_capacity > 500
    /\ channels[3].bandwidth_capacity > 400
    /\ channels[2].bandwidth_capacity = 300

====
